---- MODULE Spec2Model ----
(***************************************************************************)
(* The conversational dialogue manager of app/services/improved_chatbot.py *)
(* (ImprovedChatbotService): per-user conversation contexts, slot filling, *)
(* reference resolution, the rule-based fallbacks and the cart handlers.   *)
(*                                                                         *)
(* Conventions of the translation                                          *)
(*   - message texts are TLA+ strings; substring tests, lower() and the    *)
(*     regular expressions of the source work on their characters;         *)
(*   - Python None of an Optional[str] is the value None below, None of an *)
(*     Optional[int] is 0 (both are falsy in the source's tests, and no    *)
(*     product id is 0);                                                   *)
(*   - a price range is the pair <<min, max>> held in TENTHS of a currency *)
(*     unit, so that 0.8*v and 1.2*v are exact integers; <<>> is None;     *)
(*   - a confidence is held in tenths (8 is 0.8).                          *)
(***************************************************************************)
EXTENDS Integers, Sequences, FiniteSets, TLC

VARIABLES
    client,          \* self.client is not None (set once by __init__)
    user_contexts,   \* self.user_contexts: user id -> ConversationContext
    db,              \* the store: tables Cart, CartItems, Conversations
    last,            \* the last call of chat / reset_conversation and what it returned
    calls,           \* number of calls made so far (bounded by MaxCalls)
    probe            \* the last application of a pure helper, with its inputs

vars == <<client, user_contexts, db, last, calls, probe>>

(***************************************************************************)
(* Characters and strings                                                  *)
(***************************************************************************)
None == "<None>"

Char(s, i) == SubSeq(s, i, i)

DigitChars == {"0", "1", "2", "3", "4", "5", "6", "7", "8", "9"}

LowerLetters ==
    {"a", "b", "c", "d", "e", "f", "g", "h", "i", "j", "k", "l", "m",
     "n", "o", "p", "q", "r", "s", "t", "u", "v", "w", "x", "y", "z"}

UpperLetters ==
    {"A", "B", "C", "D", "E", "F", "G", "H", "I", "J", "K", "L", "M",
     "N", "O", "P", "Q", "R", "S", "T", "U", "V", "W", "X", "Y", "Z"}

IsDigit(c) == c \in DigitChars

\* \w of the re module, on ASCII text
IsWordChar(c) == c \in DigitChars \cup LowerLetters \cup UpperLetters \cup {"_"}

\* str.lower() on one ASCII character
LowerMap ==
    "A" :> "a" @@ "B" :> "b" @@ "C" :> "c" @@ "D" :> "d" @@ "E" :> "e" @@ "F" :> "f"
    @@ "G" :> "g" @@ "H" :> "h" @@ "I" :> "i" @@ "J" :> "j" @@ "K" :> "k" @@ "L" :> "l"
    @@ "M" :> "m" @@ "N" :> "n" @@ "O" :> "o" @@ "P" :> "p" @@ "Q" :> "q" @@ "R" :> "r"
    @@ "S" :> "s" @@ "T" :> "t" @@ "U" :> "u" @@ "V" :> "v" @@ "W" :> "w" @@ "X" :> "x"
    @@ "Y" :> "y" @@ "Z" :> "z"

LowerChar(c) == IF c \in UpperLetters THEN LowerMap[c] ELSE c

RECURSIVE lower(_)
lower(s) == IF s = "" THEN "" ELSE LowerChar(Head(s)) \o lower(Tail(s))

\* Python's  w in s  on strings
Contains(s, w) ==
    \E i \in 1..(Len(s) - Len(w) + 1) : SubSeq(s, i, i + Len(w) - 1) = w

\* any(word in s for word in words)
ContainsAny(s, words) == \E w \in words : Contains(s, w)

DigitMap ==
    "0" :> 0 @@ "1" :> 1 @@ "2" :> 2 @@ "3" :> 3 @@ "4" :> 4
    @@ "5" :> 5 @@ "6" :> 6 @@ "7" :> 7 @@ "8" :> 8 @@ "9" :> 9

DigitValue(c) == DigitMap[c]

\* int(s) for a string of decimal digits
RECURSIVE ToInt(_)
ToInt(s) ==
    IF s = "" THEN 0
    ELSE 10 * ToInt(SubSeq(s, 1, Len(s) - 1)) + DigitValue(Char(s, Len(s)))

HasDigit(s) == \E i \in 1..Len(s) : IsDigit(Char(s, i))

\* the first position of s that holds a digit (s has one)
FirstDigit(s) ==
    CHOOSE i \in 1..Len(s) :
        IsDigit(Char(s, i)) /\ \A j \in 1..(i - 1) : ~IsDigit(Char(s, j))

\* the last position of the run of digits that starts at position i
RunEnd(s, i) ==
    CHOOSE j \in i..Len(s) :
        /\ \A k \in i..j : IsDigit(Char(s, k))
        /\ j = Len(s) \/ ~IsDigit(Char(s, j + 1))

(***************************************************************************)
(* Truthiness and the short-circuit operators of Python, on Optional[str]  *)
(***************************************************************************)
Truthy(v) == v # None /\ v # ""
PyAnd(a, b) == IF Truthy(a) THEN b ELSE a
PyOr(a, b) == IF Truthy(a) THEN a ELSE b

NoRange == <<>>

(***************************************************************************)
(* SlotFillingState                                                        *)
(***************************************************************************)
SlotFillingState ==
    [category |-> None, style |-> None, color |-> None, price_range |-> NoRange,
     additional_attributes |-> {}, is_complete |-> FALSE]

\* a variant that asks for no category
check_completeness_no_category(s) == Truthy(PyOr(s.style, s.color))

check_completeness(s) == Truthy(PyAnd(s.category, PyOr(s.style, s.color)))

(***************************************************************************)
(* Vocabularies of __init__                                                *)
(***************************************************************************)
intent_definitions ==
    <<"search_products", "add_to_cart", "view_cart", "product_view",
      "remove_from_cart", "friendly_chat">>

category_mapping ==
    << <<"shirt", "top", "blouse", "tee", "t-shirt", "polo", "tank">>,
       <<"pants", "trousers", "jeans", "bottoms", "shorts", "skirt">>,
       <<"dress", "gown", "evening wear", "sundress">>,
       <<"jacket", "coat", "blazer", "hoodie", "sweater", "cardigan", "outerwear">>,
       <<"shoes", "sneakers", "boots", "heels", "sandals", "footwear">>,
       <<"bag", "purse", "handbag", "backpack", "watch", "jewelry", "accessories">> >>

style_options ==
    <<"casual", "formal", "smart casual", "trendy", "classic", "elegant", "sport", "basic">>

color_options ==
    <<"black", "white", "blue", "red", "green", "gray", "brown", "pink", "yellow", "purple">>

\* for x in options: if x in s: ...; break       (None when no option occurs)
FirstMatch(options, s) ==
    IF \E i \in 1..Len(options) : Contains(s, options[i])
    THEN options[CHOOSE i \in 1..Len(options) :
                    /\ Contains(s, options[i])
                    /\ \A j \in 1..(i - 1) : ~Contains(s, options[j])]
    ELSE None

(***************************************************************************)
(* _fallback_intent_classification                                         *)
(***************************************************************************)
IntentResult(intent, confidence) ==
    [intent |-> intent, confidence |-> confidence, entities |-> {}]

\* a variant whose cart rule does not look for add / put / remove / delete
fallback_intent_classification_view_first(message) ==
    LET message_lower == lower(message) IN
    IF ContainsAny(message_lower, {"cart", "basket"})
    THEN IntentResult("view_cart", 8)
    ELSE IF ContainsAny(message_lower, {"product", "item"}) /\ HasDigit(message)
    THEN IntentResult("product_view", 8)
    ELSE IF ContainsAny(message_lower, {"find", "search", "looking", "want", "need", "show"})
    THEN IntentResult("search_products", 8)
    ELSE IntentResult("friendly_chat", 7)

fallback_intent_classification(message) ==
    LET message_lower == lower(message) IN
    IF ContainsAny(message_lower, {"cart", "basket"})
    THEN IF ContainsAny(message_lower, {"add", "put"})
         THEN IntentResult("add_to_cart", 8)
         ELSE IF ContainsAny(message_lower, {"remove", "delete"})
         THEN IntentResult("remove_from_cart", 8)
         ELSE IntentResult("view_cart", 8)
    ELSE IF ContainsAny(message_lower, {"product", "item"}) /\ HasDigit(message)
    THEN IntentResult("product_view", 8)
    ELSE IF ContainsAny(message_lower, {"find", "search", "looking", "want", "need", "show"})
    THEN IntentResult("search_products", 8)
    ELSE IntentResult("friendly_chat", 7)

(***************************************************************************)
(* _fallback_extract_attributes                                            *)
(***************************************************************************)
\* the loop over category_mapping: the inner break leaves the outer loop
\* running, so a later category that also matches overwrites the earlier one
RECURSIVE ScanCategories(_, _, _)
ScanCategories(message_lower, cat_id, found) ==
    IF cat_id > Len(category_mapping) THEN found
    ELSE LET keyword == FirstMatch(category_mapping[cat_id], message_lower) IN
         ScanCategories(message_lower, cat_id + 1,
                        IF keyword # None THEN keyword ELSE found)

\* price = int(group(1)); if 'k' in message_lower: price *= 1000;
\* {"min": price * 0.8, "max": price * 1.2}, in tenths
ExtractPrice(message_lower) ==
    IF ~HasDigit(message_lower) THEN NoRange
    ELSE LET i == FirstDigit(message_lower)
             price == ToInt(SubSeq(message_lower, i, RunEnd(message_lower, i)))
             scaled == IF Contains(message_lower, "k") THEN price * 1000 ELSE price
         IN  <<scaled * 8, scaled * 12>>

fallback_extract_attributes(message) ==
    LET message_lower == lower(message) IN
    [category |-> ScanCategories(message_lower, 1, None),
     color |-> FirstMatch(color_options, message_lower),
     style |-> FirstMatch(style_options, message_lower),
     price_range |-> ExtractPrice(message_lower)]

(***************************************************************************)
(* _get_missing_slots and _fallback_slot_question                          *)
(***************************************************************************)
\* a variant that leaves the category out of the list
get_missing_slots_style_color_only(slot_state) ==
    IF ~Truthy(slot_state.style) /\ ~Truthy(slot_state.color)
    THEN <<"style", "color">> ELSE <<>>

\* a variant that stops at a missing category
get_missing_slots_category_alone(slot_state) ==
    IF ~Truthy(slot_state.category) THEN <<"category">>
    ELSE IF ~Truthy(slot_state.style) /\ ~Truthy(slot_state.color)
    THEN <<"style", "color">> ELSE <<>>

get_missing_slots(slot_state) ==
    (IF ~Truthy(slot_state.category) THEN <<"category">> ELSE <<>>)
    \o (IF ~Truthy(slot_state.style) /\ ~Truthy(slot_state.color)
        THEN <<"style", "color">> ELSE <<>>)

InSeq(x, seq) == \E i \in 1..Len(seq) : seq[i] = x

fallback_slot_question(missing_slots) ==
    IF InSeq("category", missing_slots)
    THEN "What type of product are you looking for? (shirt, pants, shoes, etc.)"
    ELSE IF InSeq("style", missing_slots) /\ InSeq("color", missing_slots)
    THEN "Do you have a preferred style or color in mind?"
    ELSE IF InSeq("style", missing_slots)
    THEN "What style would you prefer? (casual, formal, trendy, etc.)"
    ELSE IF InSeq("color", missing_slots)
    THEN "What color would you like?"
    ELSE "Could you provide more details about what you're looking for?"

(***************************************************************************)
(* _extract_product_ids: re.findall(r'\b(\d+)\b', message), 0 < id < 10000 *)
(***************************************************************************)
RECURSIVE ScanIds(_, _)
ScanIds(message, i) ==
    IF i > Len(message) THEN <<>>
    ELSE IF ~IsDigit(Char(message, i)) THEN ScanIds(message, i + 1)
    ELSE LET j == RunEnd(message, i)
             bounded == /\ i = 1 \/ ~IsWordChar(Char(message, i - 1))
                        /\ j = Len(message) \/ ~IsWordChar(Char(message, j + 1))
             product_id == ToInt(SubSeq(message, i, j))
         IN  (IF bounded /\ product_id > 0 /\ product_id < 10000
              THEN <<product_id>> ELSE <<>>) \o ScanIds(message, j + 1)

extract_product_ids(message) == ScanIds(message, 1)

(***************************************************************************)
(* _resolve_product_reference                                              *)
(***************************************************************************)
\* the dict of ordinals, in insertion order
ordinals ==
    << <<"first", 0>>, <<"1st", 0>>, <<"second", 1>>, <<"2nd", 1>>, <<"third", 2>>,
       <<"3rd", 2>>, <<"fourth", 3>>, <<"4th", 3>>, <<"fifth", 4>>, <<"5th", 4>> >>

OrdinalHit(message_lower, shown, k) ==
    Contains(message_lower, ordinals[k][1]) /\ ordinals[k][2] < Len(shown)

AttributeHit(message_lower, product) ==
    \/ Contains(message_lower, lower(product.Color))
    \/ Contains(message_lower, lower(product.Style))

\* a variant that answers every ordinal word with the first product
resolve_product_reference_first_only(message, shown) ==
    IF shown = <<>> THEN 0
    ELSE LET message_lower == lower(message) IN
         IF \E k \in 1..Len(ordinals) : Contains(message_lower, ordinals[k][1])
         THEN shown[1].ProductID
         ELSE 0

resolve_product_reference(message, shown) ==
    IF shown = <<>> THEN 0
    ELSE LET message_lower == lower(message) IN
         IF \E k \in 1..Len(ordinals) : OrdinalHit(message_lower, shown, k)
         THEN LET k == CHOOSE k \in 1..Len(ordinals) :
                           /\ OrdinalHit(message_lower, shown, k)
                           /\ \A h \in 1..(k - 1) : ~OrdinalHit(message_lower, shown, h)
              IN  shown[ordinals[k][2] + 1].ProductID
         ELSE IF \E n \in 1..Len(shown) : AttributeHit(message_lower, shown[n])
         THEN shown[CHOOSE n \in 1..Len(shown) :
                        /\ AttributeHit(message_lower, shown[n])
                        /\ \A h \in 1..(n - 1) : ~AttributeHit(message_lower, shown[h])].ProductID
         ELSE 0

(***************************************************************************)
(* The message texts of the model, and the helpers that read a message     *)
(* alone tabulated over them (each table is its helper, evaluated once)    *)
(***************************************************************************)
Messages ==
    {"I want a shirt", "black", "looking for a casual shirt",
     "add the first one to my cart", "show my cart", "I need something new"}

ProbeMessages ==
    {"looking for a black casual shirt", "around 200k", "black shirt 200",
     "add the second one", "add the third one", "add the third black one",
     "put item 12 in my basket", "Remove product 1 from my CART",
     "show product 6", "add 1 and 3 to my cart", "delete it from the basket",
     "what is in my basket", "tell me about item 2nd", "hello",
     "I need a jacket under 50", "find 2 tops", "the 5th casual one",
     "a white shirt or jeans", "add 12, 3 and 1 to my cart",
     "add 0, 10000 and 6 to my cart", "put 6 and 1 in my basket"}

AllMessages == Messages \cup ProbeMessages

FallbackIntent == [m \in AllMessages |-> fallback_intent_classification(m)]

FallbackAttributes == [m \in AllMessages |-> fallback_extract_attributes(m)]

ProductIdsIn == [m \in AllMessages |-> extract_product_ids(m)]

(***************************************************************************)
(* The store: table Products (read-only for the service)                   *)
(***************************************************************************)
Row(id, name, price, stock, color, style, category) ==
    [ProductID |-> id, Name |-> name, Description |-> None, Price |-> price,
     Stock |-> stock, Color |-> color, Style |-> style, CategoryID |-> category]

Products ==
    << Row(1, "Classic Tee", 200, 5, "Black", "Casual", 1),
       Row(2, "Oxford Shirt", 350, 3, "White", "Formal", 1),
       Row(3, "Polo", 150, 0, "Black", "Casual", 1),
       Row(4, "Jeans", 400, 2, "Blue", "Casual", 2),
       Row(5, "Dress Shirt", 250, 1, "Black", "Formal", 1),
       Row(6, "Plain Top", 180, 4, "Black", "Casual", 1) >>

ProductIDs == 1..Len(Products)

Max(S) == CHOOSE x \in S : \A y \in S : y <= x

\* ORDER BY ProductID DESC
RECURSIVE SortDesc(_)
SortDesc(S) == IF S = {} THEN <<>> ELSE <<Max(S)>> \o SortDesc(S \ {Max(S)})

\* the row-to-dict conversion of _search_products_with_slots
Snapshot(row) ==
    [ProductID |-> row.ProductID,
     Name |-> IF Truthy(row.Name) THEN row.Name ELSE "Product",
     Description |-> IF Truthy(row.Description) THEN row.Description ELSE "",
     Price |-> row.Price,
     Stock |-> row.Stock,
     Color |-> IF Truthy(row.Color) THEN row.Color ELSE "N/A",
     Style |-> IF Truthy(row.Style) THEN row.Style ELSE "N/A",
     CategoryID |-> IF row.CategoryID # 0 THEN row.CategoryID ELSE 1]

\* column LIKE '%value%' under the server's case-insensitive collation;
\* a NULL column matches nothing
Like(column, value) == column # None /\ Contains(lower(column), lower(value))

\* the first category id whose keyword list holds the category, else 0 (None)
CategoryIdOf(category) ==
    IF \E c \in 1..Len(category_mapping) : InSeq(lower(category), category_mapping[c])
    THEN CHOOSE c \in 1..Len(category_mapping) :
            /\ InSeq(lower(category), category_mapping[c])
            /\ \A d \in 1..(c - 1) : ~InSeq(lower(category), category_mapping[d])
    ELSE 0

TopN == 10

\* _search_products_with_slots; store_ok = FALSE: the query raises and the
\* except branch returns []
search_products_with_slots(slot_state, store_ok) ==
    IF ~store_ok THEN <<>>
    ELSE LET category_id == IF Truthy(slot_state.category)
                            THEN CategoryIdOf(slot_state.category) ELSE 0
             matches(row) ==
                 /\ row.Stock > 0
                 /\ category_id # 0 => row.CategoryID = category_id
                 /\ Truthy(slot_state.color) => Like(row.Color, slot_state.color)
                 /\ Truthy(slot_state.style) => Like(row.Style, slot_state.style)
                 /\ slot_state.price_range # NoRange =>
                       /\ slot_state.price_range[1] # 0 =>
                              row.Price * 10 >= slot_state.price_range[1]
                       /\ slot_state.price_range[2] # 0 =>
                              row.Price * 10 <= slot_state.price_range[2]
             ids == SortDesc({id \in ProductIDs : matches(Products[id])})
             top == SubSeq(ids, 1, IF Len(ids) < TopN THEN Len(ids) ELSE TopN)
         IN  [n \in 1..Len(top) |-> Snapshot(Products[top[n]])]

(***************************************************************************)
(* ConversationContext and the context store                               *)
(***************************************************************************)
\* an action descriptor of actions_performed: a plain string (kind "str") or
\* the slot_filling dict {"type", "data": {"slot", "prompt"}} (kind "dict")
ActionStr(type) == [kind |-> "str", type |-> type, slot |-> None, prompt |-> None]
ActionSlotFilling(slot, prompt) ==
    [kind |-> "dict", type |-> "slot_filling", slot |-> slot, prompt |-> prompt]
NoAction == [kind |-> "none", type |-> None, slot |-> None, prompt |-> None]

ConversationContext(user_id) ==
    [user_id |-> user_id, messages |-> <<>>, current_intent |-> None,
     slot_state |-> SlotFillingState, last_products_shown |-> <<>>,
     last_action |-> NoAction]

Msg(role, content) == [role |-> role, content |-> content]

\* dict assignment  d[k] = v
Put(d, k, v) == [x \in DOMAIN d \cup {k} |-> IF x = k THEN v ELSE d[x]]

\* a variant that empties the dict
Del_all(d, k) == <<>>

\* del d[k]
Del(d, k) == [x \in DOMAIN d \ {k} |-> d[x]]

\* _get_or_create_context: the store after the call
get_or_create_context(contexts, user_id) ==
    IF user_id \notin DOMAIN contexts
    THEN Put(contexts, user_id, ConversationContext(user_id))
    ELSE contexts

HistoryLimit == 5

LastN(seq, n) == IF Len(seq) <= n THEN seq ELSE SubSeq(seq, Len(seq) - n + 1, Len(seq))

\* _load_conversation_history: rows are the user's rows of Conversations,
\* oldest first; log_ok = FALSE: the query raises and the except branch logs
load_conversation_history(context, rows, log_ok) ==
    IF ~log_ok THEN context
    ELSE LET results == LastN(rows, HistoryLimit * 2)
             history_messages ==
                 [i \in 1..Len(results) |->
                     Msg(IF results[i].Role = 1 THEN "user" ELSE "assistant",
                         results[i].Message)]
         IN  IF Len(context.messages) <= 2
             THEN [context EXCEPT !.messages = history_messages \o @]
             ELSE context

(***************************************************************************)
(* The language-model service.  Each call site either raises (transport    *)
(* error, timeout, unparsable text) or returns what the service answered.  *)
(***************************************************************************)
Missing == "<missing key>"

LlmQuestion == "<question phrased by the language model>"
LlmProducts == "<product list phrased by the language model>"
LlmChat == "<small talk by the language model>"

\* a variant without the except branch: the failure of the service escapes
classify_intent_with_context_no_fallback(message, context, has_client, reply) ==
    IF ~has_client THEN FallbackIntent[message]
    ELSE IF reply = "raise" THEN IntentResult(Missing, 0)
    ELSE IntentResult(reply, 9)

\* _classify_intent_with_context: reply = "raise", or the intent of the JSON
\* object the service returned (Missing: the object has no "intent" key)
classify_intent_with_context(message, context, has_client, reply) ==
    IF ~has_client THEN FallbackIntent[message]
    ELSE IF reply = "raise" THEN FallbackIntent[message]
    ELSE IntentResult(reply, 9)

Attrs(category, style, color, price_range) ==
    [category |-> category, style |-> style, color |-> color,
     price_range |-> price_range]

\* _extract_product_attributes: reply.kind = "raise", "not_object" (JSON that
\* is no object) or "dict" with the attributes in reply.attrs
extract_product_attributes(message, has_client, reply) ==
    IF ~has_client \/ reply.kind = "raise"
    THEN [is_dict |-> TRUE, attrs |-> FallbackAttributes[message]]
    ELSE [is_dict |-> reply.kind = "dict", attrs |-> reply.attrs]

generate_slot_filling_question(missing_slots, has_client, reply) ==
    IF ~has_client \/ reply = "raise"
    THEN fallback_slot_question(missing_slots)
    ELSE LlmQuestion

(***************************************************************************)
(* Response formatting                                                     *)
(***************************************************************************)
\* f"{x:.2f}" of a whole amount
Money(amount) == ToString(amount) \o ".00"

\* str(x) of an Optional[str]
PyStr(v) == IF v = None THEN "None" ELSE v

RECURSIVE FormatLines(_, _, _)
FormatLines(products, i, n) ==
    IF i > n THEN ""
    ELSE ToString(i) \o ". " \o products[i].Name
            \o " (ID: " \o ToString(products[i].ProductID) \o ")\n"
            \o "   Price: $" \o Money(products[i].Price) \o "\n"
            \o "   Color: " \o products[i].Color \o " | Style: " \o products[i].Style \o "\n"
            \o "   Stock: " \o ToString(products[i].Stock) \o " available\n\n"
            \o FormatLines(products, i + 1, n)

FormatLimit == 5

\* _simple_format_products (the emoji of the source are left out of the text)
simple_format_products(products) ==
    IF products = <<>> THEN "No products found matching your criteria."
    ELSE "I found " \o ToString(Len(products)) \o " products for you:\n\n"
            \o FormatLines(products, 1,
                           IF Len(products) < FormatLimit THEN Len(products) ELSE FormatLimit)
            \o "Would you like to see more details or add any to your cart?"

format_product_results(products, has_client, reply) ==
    IF ~has_client \/ reply = "raise"
    THEN simple_format_products(products)
    ELSE LlmProducts

(***************************************************************************)
(* _handle_product_search_with_slots                                       *)
(* A handler yields [raised, result, context, db, searched]:                *)
(* raised = an exception leaves the handler, context = the context as the  *)
(* handler leaves it.                                                      *)
(***************************************************************************)
Result(response, intent, actions, products) ==
    [response |-> response, intent |-> intent, actions_performed |-> actions,
     products |-> products, conversation_id |-> 0]

NoResult == Result(None, None, <<>>, <<>>)

Outcome(raised, result, context, store, searched) ==
    [raised |-> raised, result |-> result, context |-> context, db |-> store,
     searched |-> searched]

\* a variant that assigns every slot, also from an empty answer
MergeSlots_assign_all(slot_state, entities) ==
    [slot_state EXCEPT
        !.category = entities.category,
        !.style = entities.style,
        !.color = entities.color,
        !.price_range = entities.price_range]

\* a variant that forgets the color
MergeSlots_without_color(slot_state, entities) ==
    [slot_state EXCEPT
        !.category = IF Truthy(entities.category) THEN entities.category ELSE @,
        !.style = IF Truthy(entities.style) THEN entities.style ELSE @,
        !.price_range = IF entities.price_range # NoRange THEN entities.price_range ELSE @]

\* the four  if entities.get(...)  assignments
MergeSlots(slot_state, entities) ==
    [slot_state EXCEPT
        !.category = IF Truthy(entities.category) THEN entities.category ELSE @,
        !.style = IF Truthy(entities.style) THEN entities.style ELSE @,
        !.color = IF Truthy(entities.color) THEN entities.color ELSE @,
        !.price_range = IF entities.price_range # NoRange THEN entities.price_range ELSE @]

\* a variant that does not clear the slot state after the search
handle_product_search_with_slots_keep_slots(message, context, store, has_client, e) ==
    LET extracted == extract_product_attributes(message, has_client, e.ext)
        slot_state == MergeSlots(context.slot_state, extracted.attrs)
        merged == [context EXCEPT !.slot_state = slot_state]
    IN  IF ~extracted.is_dict
        THEN Outcome(TRUE, NoResult, context, store, FALSE)
        ELSE IF ~check_completeness(slot_state)
        THEN LET missing_slots == get_missing_slots(slot_state)
                 response == generate_slot_filling_question(missing_slots, has_client, e.gen)
                 missing_slot == IF missing_slots # <<>> THEN missing_slots[1] ELSE None
             IN  Outcome(FALSE,
                         Result(response, "search_products",
                                <<ActionSlotFilling(missing_slot, response)>>, <<>>),
                         merged, store, FALSE)
        ELSE LET search_results == search_products_with_slots(slot_state, e.store = "up")
                 response ==
                     IF search_results # <<>>
                     THEN format_product_results(search_results, has_client, e.gen)
                     ELSE "I couldn't find any products matching your criteria. Would you like to try different specifications?"
             IN  Outcome(FALSE,
                         Result(response, "search_products",
                                <<ActionStr("search_products")>>, search_results),
                         [merged EXCEPT !.last_products_shown = search_results],
                         store, TRUE)

handle_product_search_with_slots(message, context, store, has_client, e) ==
    LET extracted == extract_product_attributes(message, has_client, e.ext)
        slot_state == MergeSlots(context.slot_state, extracted.attrs)
        merged == [context EXCEPT !.slot_state = slot_state]
    IN  IF ~extracted.is_dict
        THEN \* entities.get raises AttributeError before anything is assigned
             Outcome(TRUE, NoResult, context, store, FALSE)
        ELSE IF ~check_completeness(slot_state)
        THEN LET missing_slots == get_missing_slots(slot_state)
                 response == generate_slot_filling_question(missing_slots, has_client, e.gen)
                 missing_slot == IF missing_slots # <<>> THEN missing_slots[1] ELSE None
             IN  Outcome(FALSE,
                         Result(response, "search_products",
                                <<ActionSlotFilling(missing_slot, response)>>, <<>>),
                         merged, store, FALSE)
        ELSE LET search_results == search_products_with_slots(slot_state, e.store = "up")
                 response ==
                     IF search_results # <<>>
                     THEN format_product_results(search_results, has_client, e.gen)
                     ELSE "I couldn't find any products matching your criteria. Would you like to try different specifications?"
             IN  Outcome(FALSE,
                         Result(response, "search_products",
                                <<ActionStr("search_products")>>, search_results),
                         [merged EXCEPT !.slot_state = SlotFillingState,
                                        !.last_products_shown = search_results],
                         store, TRUE)

(***************************************************************************)
(* The store: tables Cart(CartID, UserID), CartItems(CartItemID, CartID,   *)
(* ProductID, Quantity) and Conversations(UserID, Role, Message).  The     *)
(* columns Intent, SessionID, Metadata and CreatedAt of Conversations are  *)
(* written and never read by the service; rows are kept in insertion order.*)
(***************************************************************************)
EmptyStore ==
    [Cart |-> <<>>, CartItems |-> <<>>, Conversations |-> <<>>,
     identity |-> [CartItems |-> 0, Conversations |-> 0]]

\* a variant that takes the first cart there is, whoever owns it
CartOf_any_user(store, user_id) == IF Len(store.Cart) > 0 THEN 1 ELSE 0

\* SELECT CartID FROM Cart WHERE UserID = ?  ; fetchone(), 0 for no row
CartOf(store, user_id) ==
    IF \E c \in 1..Len(store.Cart) : store.Cart[c] = user_id
    THEN CHOOSE c \in 1..Len(store.Cart) :
            /\ store.Cart[c] = user_id
            /\ \A d \in 1..(c - 1) : store.Cart[d] # user_id
    ELSE 0

IsLine(row, cart_id, product_id) == row.CartID = cart_id /\ row.ProductID = product_id

\* position of the first CartItems row of the cart for the product, 0 for none
LineOf(store, cart_id, product_id) ==
    LET rows == store.CartItems IN
    IF \E i \in 1..Len(rows) : IsLine(rows[i], cart_id, product_id)
    THEN CHOOSE i \in 1..Len(rows) :
            /\ IsLine(rows[i], cart_id, product_id)
            /\ \A j \in 1..(i - 1) : ~IsLine(rows[j], cart_id, product_id)
    ELSE 0

\* a variant that leaves an existing line as it is
AddOne_no_increment(store, cart_id, product_id) ==
    LET line == LineOf(store, cart_id, product_id) IN
    IF line # 0
    THEN store
    ELSE [store EXCEPT
            !.CartItems = Append(@, [CartItemID |-> store.identity.CartItems + 1,
                                     CartID |-> cart_id, ProductID |-> product_id,
                                     Quantity |-> 1]),
            !.identity.CartItems = @ + 1]

\* the body of the loop of _add_products_to_cart for one product id
AddOne(store, cart_id, product_id) ==
    LET line == LineOf(store, cart_id, product_id) IN
    IF line # 0
    THEN [store EXCEPT !.CartItems[line].Quantity = @ + 1]
    ELSE [store EXCEPT
            !.CartItems = Append(@, [CartItemID |-> store.identity.CartItems + 1,
                                     CartID |-> cart_id, ProductID |-> product_id,
                                     Quantity |-> 1]),
            !.identity.CartItems = @ + 1]

\* SELECT ... FROM Products WHERE ProductID = ? AND Stock > 0
InStock(product_id) == product_id \in ProductIDs /\ Products[product_id].Stock > 0

\* the loop over product_ids: [store, added] after the ids from position i on
RECURSIVE AddLoop(_, _, _, _, _)
AddLoop(store, cart_id, product_ids, i, added) ==
    IF i > Len(product_ids) THEN [store |-> store, added |-> added]
    ELSE IF InStock(product_ids[i])
    THEN AddLoop(AddOne(store, cart_id, product_ids[i]), cart_id, product_ids, i + 1,
                 Append(added, product_ids[i]))
    ELSE AddLoop(store, cart_id, product_ids, i + 1, added)

RECURSIVE JoinNames(_, _)
JoinNames(ids, i) ==
    IF i > Len(ids) THEN ""
    ELSE PyStr(Products[ids[i]].Name) \o (IF i < Len(ids) THEN ", " ELSE "")
            \o JoinNames(ids, i + 1)

\* _add_products_to_cart: [response, db]; store_ok = FALSE: get_connection
\* raises and the except branch answers
add_products_to_cart(product_ids, user_id, store, store_ok) ==
    IF ~store_ok
    THEN [response |-> "Sorry, there was an error adding to your cart. Please try again.",
          db |-> store]
    ELSE LET with_cart == IF CartOf(store, user_id) = 0
                          THEN [store EXCEPT !.Cart = Append(@, user_id)]
                          ELSE store
             cart_id == CartOf(with_cart, user_id)
             done == AddLoop(with_cart, cart_id, product_ids, 1, <<>>)
             added_products == done.added
         IN  [response |->
                 IF added_products # <<>>
                 THEN IF Len(added_products) = 1
                      THEN "Added " \o PyStr(Products[added_products[1]].Name) \o " to your cart!"
                      ELSE "Added " \o ToString(Len(added_products))
                              \o " items to your cart: " \o JoinNames(added_products, 1)
                 ELSE "Could not add products to cart. They may be out of stock.",
              db |-> done.store]

\* a variant that asks the reference resolver before it reads the ids
handle_add_to_cart_reference_first(message, context, store, e) ==
    LET product_reference ==
            IF context.last_products_shown # <<>>
            THEN resolve_product_reference(message, context.last_products_shown)
            ELSE 0
        product_ids == IF product_reference # 0 THEN <<product_reference>>
                       ELSE ProductIdsIn[message]
    IN  IF product_ids = <<>>
        THEN Outcome(FALSE,
                     Result("I'm not sure which product you want to add. Could you specify the product ID or describe it?",
                            "add_to_cart", <<ActionStr("add_to_cart")>>, <<>>),
                     context, store, FALSE)
        ELSE LET added == add_products_to_cart(product_ids, context.user_id, store,
                                               e.store = "up")
             IN  Outcome(FALSE,
                         Result(added.response, "add_to_cart",
                                <<ActionStr("add_to_cart")>>, <<>>),
                         context, added.db, FALSE)

\* _handle_add_to_cart
handle_add_to_cart(message, context, store, e) ==
    LET explicit_ids == ProductIdsIn[message]
        product_reference ==
            IF explicit_ids = <<>> /\ context.last_products_shown # <<>>
            THEN resolve_product_reference(message, context.last_products_shown)
            ELSE 0
        product_ids == IF explicit_ids # <<>> THEN explicit_ids
                       ELSE IF product_reference # 0 THEN <<product_reference>>
                       ELSE <<>>
    IN  IF product_ids = <<>>
        THEN Outcome(FALSE,
                     Result("I'm not sure which product you want to add. Could you specify the product ID or describe it?",
                            "add_to_cart", <<ActionStr("add_to_cart")>>, <<>>),
                     context, store, FALSE)
        ELSE LET added == add_products_to_cart(product_ids, context.user_id, store,
                                               e.store = "up")
             IN  Outcome(FALSE,
                         Result(added.response, "add_to_cart",
                                <<ActionStr("add_to_cart")>>, <<>>),
                         context, added.db, FALSE)

(***************************************************************************)
(* _handle_view_cart and _format_cart_contents                             *)
(***************************************************************************)
\* a variant that reads the lines of every cart
RECURSIVE CartLines_any_cart(_, _, _)
CartLines_any_cart(rows, cart_id, i) ==
    IF i > Len(rows) THEN <<>>
    ELSE (IF rows[i].ProductID \in ProductIDs
          THEN LET p == Products[rows[i].ProductID] IN
               << [CartItemID |-> rows[i].CartItemID, ProductID |-> p.ProductID,
                   Name |-> p.Name, Price |-> p.Price, Quantity |-> rows[i].Quantity,
                   Color |-> p.Color, Style |-> p.Style,
                   Total |-> p.Price * rows[i].Quantity] >>
          ELSE <<>>) \o CartLines_any_cart(rows, cart_id, i + 1)

\* the rows of CartItems of a cart joined with Products, in insertion order
RECURSIVE CartLines(_, _, _)
CartLines(rows, cart_id, i) ==
    IF i > Len(rows) THEN <<>>
    ELSE (IF rows[i].CartID = cart_id /\ rows[i].ProductID \in ProductIDs
          THEN LET p == Products[rows[i].ProductID] IN
               << [CartItemID |-> rows[i].CartItemID, ProductID |-> p.ProductID,
                   Name |-> p.Name, Price |-> p.Price, Quantity |-> rows[i].Quantity,
                   Color |-> p.Color, Style |-> p.Style,
                   Total |-> p.Price * rows[i].Quantity] >>
          ELSE <<>>) \o CartLines(rows, cart_id, i + 1)

RECURSIVE SumTotals(_, _)
SumTotals(items, i) ==
    IF i > Len(items) THEN 0 ELSE items[i].Total + SumTotals(items, i + 1)

RECURSIVE FormatCartLines(_, _)
FormatCartLines(items, i) ==
    IF i > Len(items) THEN ""
    ELSE ToString(i) \o ". " \o PyStr(items[i].Name)
            \o " (ID: " \o ToString(items[i].ProductID) \o ")\n"
            \o "   $" \o Money(items[i].Price) \o " x " \o ToString(items[i].Quantity)
            \o " = $" \o Money(items[i].Price * items[i].Quantity) \o "\n"
            \o "   " \o PyStr(items[i].Color) \o " | " \o PyStr(items[i].Style) \o "\n\n"
            \o FormatCartLines(items, i + 1)

format_cart_contents(cart_items, total) ==
    "Your cart has " \o ToString(Len(cart_items)) \o " item(s):\n\n"
        \o FormatCartLines(cart_items, 1)
        \o "Total: $" \o Money(total) \o "\n\n"
        \o "Would you like to checkout or continue shopping?"

EmptyCartText == "Your cart is empty. Would you like to browse some products?"

\* a variant that starts the search criteria afresh
handle_view_cart_new_slots(context, store, e) ==
    Outcome(FALSE,
            Result(IF e.store # "up"
                   THEN "Sorry, I couldn't retrieve your cart. Please try again."
                   ELSE EmptyCartText,
                   "view_cart", <<ActionStr("view_cart")>>, <<>>),
            [context EXCEPT !.slot_state = SlotFillingState], store, FALSE)

handle_view_cart(context, store, e) ==
    LET cart_id == CartOf(store, context.user_id)
        items == CartLines(store.CartItems, cart_id, 1)
        response ==
            IF e.store # "up" THEN "Sorry, I couldn't retrieve your cart. Please try again."
            ELSE IF cart_id = 0 \/ items = <<>> THEN EmptyCartText
            ELSE format_cart_contents(items, SumTotals(items, 1))
        products == IF e.store = "up" /\ cart_id # 0 THEN items ELSE <<>>
    IN  Outcome(FALSE, Result(response, "view_cart", <<ActionStr("view_cart")>>, products),
                context, store, FALSE)

(***************************************************************************)
(* _handle_product_view and _format_product_details                        *)
(***************************************************************************)
format_product_details(product) ==
    PyStr(product.Name) \o " (ID: " \o ToString(product.ProductID) \o ")\n\n"
        \o PyStr(product.Description) \o "\n\n"
        \o "Price: $" \o Money(product.Price) \o "\n"
        \o "Color: " \o PyStr(product.Color) \o "\n"
        \o "Style: " \o PyStr(product.Style) \o "\n"
        \o "Stock: " \o ToString(product.Stock) \o " available\n\n"
        \o (IF product.Stock > 0 THEN "Would you like to add this to your cart?"
            ELSE "This product is currently out of stock.")

handle_product_view(message, context, store, e) ==
    LET explicit_ids == ProductIdsIn[message]
        product_id == IF explicit_ids = <<>>
                      THEN resolve_product_reference(message, context.last_products_shown)
                      ELSE 0
        product_ids == IF explicit_ids # <<>> THEN explicit_ids
                       ELSE IF product_id # 0 THEN <<product_id>>
                       ELSE <<>>
        answer(response, products) ==
            Outcome(FALSE, Result(response, "product_view",
                                  <<ActionStr("product_view")>>, products),
                    context, store, FALSE)
    IN  IF product_ids = <<>>
        THEN answer("Please specify which product you'd like to see details for (e.g., 'show product 123').", <<>>)
        ELSE IF e.store # "up"
        THEN answer("Sorry, I couldn't retrieve product details. Please try again.", <<>>)
        ELSE IF product_ids[1] \in ProductIDs
        THEN answer(format_product_details(Products[product_ids[1]]),
                    <<Products[product_ids[1]]>>)
        ELSE answer("I couldn't find product " \o ToString(product_ids[1])
                        \o ". Please check the product ID.", <<>>)

(***************************************************************************)
(* _handle_remove_from_cart                                                *)
(***************************************************************************)
\* a variant whose DELETE does not name the cart
DeleteLines_any_cart(store, cart_id, product_id) ==
    [store EXCEPT !.CartItems =
        SelectSeq(@, LAMBDA row : row.ProductID # product_id)]

\* DELETE FROM CartItems WHERE CartID = ? AND ProductID = ?
DeleteLines(store, cart_id, product_id) ==
    [store EXCEPT !.CartItems =
        SelectSeq(@, LAMBDA row : ~IsLine(row, cart_id, product_id))]

\* the loop over product_ids: [store, removed] after the ids from position i on
RECURSIVE RemoveLoop(_, _, _, _, _)
RemoveLoop(store, cart_id, product_ids, i, removed) ==
    IF i > Len(product_ids) THEN [store |-> store, removed |-> removed]
    ELSE RemoveLoop(DeleteLines(store, cart_id, product_ids[i]), cart_id, product_ids, i + 1,
                    IF LineOf(store, cart_id, product_ids[i]) # 0
                    THEN Append(removed, product_ids[i]) ELSE removed)

handle_remove_from_cart(message, context, store, e) ==
    LET product_ids == ProductIdsIn[message]
        cart_id == CartOf(store, context.user_id)
        done == RemoveLoop(store, cart_id, product_ids, 1, <<>>)
        remaining_items == CartLines(done.store.CartItems, cart_id, 1)
        answer(response, after) ==
            Outcome(FALSE, Result(response, "remove_from_cart",
                                  <<ActionStr("remove_from_cart")>>, <<>>),
                    context, after, FALSE)
    IN  IF product_ids = <<>>
        THEN answer("Please specify which product to remove (e.g., 'remove product 123').", store)
        ELSE IF e.store # "up"
        THEN answer("Sorry, there was an error removing items. Please try again.", store)
        ELSE IF cart_id = 0
        THEN answer("You don't have a cart yet. Try adding some products first!", store)
        ELSE IF done.removed # <<>>
        THEN answer("Removed " \o ToString(Len(done.removed)) \o " item(s) from your cart.\n\n"
                        \o (IF remaining_items # <<>>
                            THEN "You still have " \o ToString(Len(remaining_items))
                                    \o " item(s) in your cart."
                            ELSE "Your cart is now empty."),
                    done.store)
        ELSE answer("Could not find those items in your cart.", done.store)

(***************************************************************************)
(* _handle_friendly_chat                                                   *)
(***************************************************************************)
handle_friendly_chat(message, context, store, has_client, e) ==
    LET response ==
            IF ~has_client
            THEN "Hello! I'm here to help you find products and manage your shopping. What can I do for you?"
            ELSE IF e.gen = "raise"
            THEN "I'm here to help with your shopping! Feel free to ask about products or your cart."
            ELSE LlmChat
    IN  Outcome(FALSE, Result(response, "friendly_chat", <<ActionStr("friendly_chat")>>, <<>>),
                context, store, FALSE)

(***************************************************************************)
(* _save_conversation                                                      *)
(***************************************************************************)
ConversationRow(user_id, role, message) ==
    [UserID |-> user_id, Role |-> role, Message |-> message]

\* a variant that gives up after the first attempt
save_conversation_single_attempt(store, user_id, user_message, bot_response, log) ==
    IF log # "up"
    THEN [db |-> store, conversation_id |-> 0, attempts |-> 1]
    ELSE [db |-> [store EXCEPT
                    !.Conversations = @ \o <<ConversationRow(user_id, 1, user_message),
                                             ConversationRow(user_id, 2, bot_response)>>,
                    !.identity.Conversations = @ + 2],
          conversation_id |-> store.identity.Conversations + 2,
          attempts |-> 1]

\* log = "up": the INSERTs that name Intent, SessionID and Metadata succeed;
\* log = "retry": they raise (the table has no such columns, or the first
\* attempt fails) and the reduced INSERTs of the except branch succeed;
\* log = "noinsert": both sets of INSERTs raise and None is returned;
\* log = "down": the table is out of reach for reads and writes alike.
\* [db, conversation_id (0 is None), attempts]
save_conversation(store, user_id, user_message, bot_response, log) ==
    IF log \in {"down", "noinsert"}
    THEN [db |-> store, conversation_id |-> 0, attempts |-> 2]
    ELSE [db |-> [store EXCEPT
                    !.Conversations = @ \o <<ConversationRow(user_id, 1, user_message),
                                             ConversationRow(user_id, 2, bot_response)>>,
                    !.identity.Conversations = @ + 2],
          conversation_id |-> store.identity.Conversations + 2,
          attempts |-> IF log = "retry" THEN 2 ELSE 1]

RowsOf(store, user_id) == SelectSeq(store.Conversations, LAMBDA row : row.UserID = user_id)

(***************************************************************************)
(* chat                                                                    *)
(***************************************************************************)
ErrorResult ==
    [Result("I apologize, but I encountered an error. Please try again.", "error",
            <<ActionStr("error")>>, <<>>) EXCEPT !.conversation_id = 1]

\* the if / elif chain on intent_result["intent"]
Dispatch(intent, message, context, store, has_client, e) ==
    IF intent = "search_products"
    THEN handle_product_search_with_slots(message, context, store, has_client, e)
    ELSE IF intent = "add_to_cart" THEN handle_add_to_cart(message, context, store, e)
    ELSE IF intent = "view_cart" THEN handle_view_cart(context, store, e)
    ELSE IF intent = "product_view" THEN handle_product_view(message, context, store, e)
    ELSE IF intent = "remove_from_cart"
    THEN handle_remove_from_cart(message, context, store, e)
    ELSE handle_friendly_chat(message, context, store, has_client, e)

\* what a call of chat leaves behind: [user_contexts, db, result, raised,
\* searched, intent, attempts]; raised = the except branch of chat answered
Turn(contexts, store, result, raised, searched, intent, attempts) ==
    [user_contexts |-> contexts, db |-> store, result |-> result, raised |-> raised,
     searched |-> searched, intent |-> intent, attempts |-> attempts]

\* the statements of chat in order: Created, Loaded, Classified, Handled and
\* Saved each take what the statements before them have computed
chat(contexts, store, has_client, user_id, message, e) ==
    LET Saved(created, intent, h, saved) ==
            Turn(Put(created, user_id,
                     [h.context EXCEPT
                         !.current_intent = intent,
                         !.last_action = h.result.actions_performed[1],
                         !.messages = Append(@, Msg("assistant", h.result.response))]),
                 saved.db,
                 [h.result EXCEPT !.conversation_id =
                     IF saved.conversation_id # 0 THEN saved.conversation_id ELSE 1],
                 FALSE, h.searched, intent, saved.attempts)
        Handled(created, intent, h) ==
            IF h.raised
            THEN Turn(Put(created, user_id, h.context), h.db, ErrorResult, TRUE, FALSE,
                      intent, 0)
            ELSE Saved(created, intent, h,
                       save_conversation(h.db, user_id, message, h.result.response, e.log))
        Classified(created, loaded, intent_result) ==
            IF intent_result.intent = Missing
            THEN \* intent_result["intent"] raises KeyError
                 Turn(Put(created, user_id, loaded), store, ErrorResult, TRUE, FALSE,
                      Missing, 0)
            ELSE Handled(created, intent_result.intent,
                         Dispatch(intent_result.intent, message, loaded, store,
                                  has_client, e))
        Loaded(created, loaded) ==
            Classified(created, loaded,
                       classify_intent_with_context(message, loaded, has_client, e.cls))
        Created(created) ==
            Loaded(created,
                   load_conversation_history(
                       [created[user_id] EXCEPT !.messages = Append(@, Msg("user", message))],
                       RowsOf(store, user_id), e.log # "down"))
    IN  Created(get_or_create_context(contexts, user_id))

(***************************************************************************)
(* reset_conversation                                                      *)
(***************************************************************************)
ResetMessage == "Conversation reset requested"
ResetResponse == "Sure! Let's start fresh. What kind of product are you looking for?"

\* a variant that keeps the context when the reset event is not written
reset_conversation_keep_unlogged(contexts, store, user_id, new_session_id, log) ==
    LET saved == save_conversation(store, user_id, ResetMessage, ResetResponse, log)
        cleared == IF user_id \in DOMAIN contexts /\ saved.conversation_id # 0
                   THEN Del(contexts, user_id) ELSE contexts
    IN  [user_contexts |-> cleared, db |-> saved.db,
         result |-> [response |-> ResetResponse, products |-> <<>>,
                     actions_performed |-> <<ActionStr("conversation_reset")>>,
                     conversation_id |-> saved.conversation_id,
                     session_id |-> new_session_id, status |-> "reset_successful"]]

reset_conversation(contexts, store, user_id, new_session_id, log) ==
    LET cleared == IF user_id \in DOMAIN contexts THEN Del(contexts, user_id) ELSE contexts
        saved == save_conversation(store, user_id, ResetMessage, ResetResponse, log)
    IN  [user_contexts |-> cleared, db |-> saved.db,
         result |-> [response |-> ResetResponse, products |-> <<>>,
                     actions_performed |-> <<ActionStr("conversation_reset")>>,
                     conversation_id |-> saved.conversation_id,
                     session_id |-> new_session_id, status |-> "reset_successful"]]

(***************************************************************************)
(* The inputs of the model                                                 *)
(***************************************************************************)
Users == {1, 2}

\* what the classifier of the language model may answer: a label of
\* intent_definitions, a label outside it (the answer is returned as parsed),
\* or an object without "intent"
LlmIntents == {"search_products", "greeting", Missing}

NoAttrs == Attrs(None, None, None, NoRange)

\* what the attribute extractor of the language model may answer
LlmAttributes ==
    {Attrs(None, None, "black", NoRange),
     Attrs("shirt", "", None, <<1000, 3000>>)}

NoReply == [kind |-> "raise", attrs |-> NoAttrs]

ExtReplies ==
    {NoReply, [kind |-> "not_object", attrs |-> NoAttrs]}
        \cup {[kind |-> "dict", attrs |-> a] : a \in LlmAttributes}

SessionIds == {"1a2b3c4d"}

\* a call of the language model that the turn does not make
NotConsulted == "<not consulted>"

NoConsult == [kind |-> NotConsulted, attrs |-> NoAttrs]

\* the environment of one chat call: cls, ext, gen = what the language model
\* does at the classifier, the extractor and the text generator (question,
\* product list or small talk) of the turn; store = the handler's access to
\* the store; log = the access to table Conversations (history and save)
Env(cls, ext, gen, store, log) ==
    [cls |-> cls, ext |-> ext, gen |-> gen, store |-> store, log |-> log]

\* The environments of one chat call.  A choice the call does not consult is
\* held at one value: the classifier is consulted when there is a client, the
\* extractor on the search route, and the generator, the store and the save
\* when their outcome shows in what the call leaves behind.  The classifier
\* answers search_products, the label the rules give, or an object without
\* "intent".  out maps <<generator, store>> to what the handler leaves behind.
EnvChoices(has_client, cls, ext, history_read, out) ==
    UNION {
      { Env(cls, ext, gen, up, log) :
          gen \in (IF has_client /\ out[<<"ok", up>>] # out[<<"raise", up>>]
                   THEN {"ok", "raise"} ELSE {NotConsulted}),
          log \in (IF ~out[<<"raise", "up">>].raised
                   THEN {"up", "retry", "noinsert", "down"}
                   ELSE IF history_read THEN {"up", "down"} ELSE {"up"}) }
      : up \in (IF out[<<"raise", "up">>] # out[<<"raise", "down">>]
                THEN {"up", "down"} ELSE {"up"}) }

EnvRouted(has_client, store, message, context, cls, intent, ext, history_read) ==
    EnvChoices(has_client, cls, ext, history_read,
               [g \in {"ok", "raise"} \X {"up", "down"} |->
                   Dispatch(intent, message, context, store, has_client,
                            Env(cls, ext, g[1], g[2], "up"))])

EnvAnswered(has_client, store, message, context, cls, intent, history_read) ==
    IF cls = Missing
    THEN { Env(cls, NoConsult, NotConsulted, "up", log) :
              log \in IF history_read THEN {"up", "down"} ELSE {"up"} }
    ELSE UNION { EnvRouted(has_client, store, message, context, cls, intent, ext,
                           history_read)
                 : ext \in (IF has_client /\ intent = "search_products"
                            THEN ExtReplies ELSE {NoConsult}) }

EnvFor(has_client, store, user_id, message, context) ==
    UNION { EnvAnswered(has_client, store, message, context, cls,
                        IF cls \in {"raise", NotConsulted}
                        THEN FallbackIntent[message].intent ELSE cls,
                        RowsOf(store, user_id) # <<>> /\ Len(context.messages) + 1 <= 2)
            : cls \in (IF has_client
                       THEN {"raise", FallbackIntent[message].intent} \cup LlmIntents
                       ELSE {NotConsulted}) }

Envs(has_client, contexts, store, user_id, message) ==
    EnvFor(has_client, store, user_id, message,
           get_or_create_context(contexts, user_id)[user_id])

\* the steps of a call that fail: a call of the language model that raises
\* or answers no usable object, the store, the table Conversations
FaultsOf(e) ==
    (IF e.cls \in {"raise", Missing} THEN 1 ELSE 0)
    + (IF e.ext.kind \in {"raise", "not_object"} THEN 1 ELSE 0)
    + (IF e.gen = "raise" THEN 1 ELSE 0)
    + (IF e.store = "down" THEN 1 ELSE 0)
    + (IF e.log \in {"retry", "noinsert", "down"} THEN 1 ELSE 0)

MaxCalls == 2
MaxResets == 1
\* failing steps in a run
MaxFaults == 1

(***************************************************************************)
(* The state machine                                                       *)
(***************************************************************************)
Idle == [op |-> "none"]

Init ==
    /\ client \in BOOLEAN
    /\ user_contexts = <<>>
    /\ db = EmptyStore
    /\ last = Idle
    /\ calls = [chat |-> 0, reset |-> 0, faults |-> 0, users |-> {}]
    /\ probe = Idle

\* user ids are interchangeable: they come into use in ascending order
MayCall(user_id) == \A v \in Users : v < user_id => v \in calls.users

Chat ==
    /\ calls.chat < MaxCalls
    /\ \E user_id \in Users, message \in Messages :
         /\ MayCall(user_id)
         /\ \E e \in Envs(client, user_contexts, db, user_id, message) :
            \E t \in {chat(user_contexts, db, client, user_id, message, e)} :
              /\ calls.faults + FaultsOf(e) <= MaxFaults
              /\ calls' = [calls EXCEPT !.chat = @ + 1, !.users = @ \cup {user_id},
                                        !.faults = @ + FaultsOf(e)]
              /\ user_contexts' = t.user_contexts
              /\ db' = t.db
              /\ last' = [op |-> "chat", user_id |-> user_id, message |-> message,
                          env |-> e, result |-> t.result, raised |-> t.raised,
                          searched |-> t.searched, intent |-> t.intent,
                          attempts |-> t.attempts]
    /\ UNCHANGED <<client, probe>>

Reset ==
    /\ calls.reset < MaxResets
    /\ \E user_id \in Users, sid \in SessionIds, log \in {"up", "retry", "down"} :
         /\ MayCall(user_id)
         /\ calls.faults + (IF log = "up" THEN 0 ELSE 1) <= MaxFaults
         /\ calls' = [calls EXCEPT !.reset = @ + 1, !.users = @ \cup {user_id},
                                   !.faults = @ + (IF log = "up" THEN 0 ELSE 1)]
         /\ \E t \in {reset_conversation(user_contexts, db, user_id, sid, log)} :
            /\ user_contexts' = t.user_contexts
            /\ db' = t.db
            /\ last' = [op |-> "reset", user_id |-> user_id, log |-> log,
                        result |-> t.result]
    /\ UNCHANGED <<client, probe>>

Next == Chat \/ Reset

Spec == Init /\ [][Next]_vars

(***************************************************************************)
(* One user in a longer conversation: up to MaxTurns chat calls            *)
(***************************************************************************)
TalkUser == 1

MaxTurns == 3

\* a search that lacks style and color, two turns for other handlers, and a
\* color on its own
TalkMessages ==
    {"I want a shirt", "show my cart", "add the first one to my cart", "black"}

Talk ==
    /\ calls.chat < MaxTurns
    /\ \E message \in TalkMessages :
         \E e \in Envs(client, user_contexts, db, TalkUser, message) :
         \E t \in {chat(user_contexts, db, client, TalkUser, message, e)} :
            /\ calls.faults + FaultsOf(e) <= MaxFaults
            /\ calls' = [calls EXCEPT !.chat = @ + 1, !.users = @ \cup {TalkUser},
                                      !.faults = @ + FaultsOf(e)]
            /\ user_contexts' = t.user_contexts
            /\ db' = t.db
            /\ last' = [op |-> "chat", user_id |-> TalkUser, message |-> message,
                        env |-> e, result |-> t.result, raised |-> t.raised,
                        searched |-> t.searched, intent |-> t.intent,
                        attempts |-> t.attempts]
    /\ UNCHANGED <<client, probe>>

NextTalk == Talk

SpecTalk == Init /\ [][NextTalk]_vars

(***************************************************************************)
(* Two runs side by side.  In the first the user PairUser is alone with    *)
(* the service (user_contexts, db); in the second (probe.user_contexts,    *)
(* probe.db) the user PairOther calls the service as well.  The calls of   *)
(* PairUser are made in both runs, with the same message and the same      *)
(* answers of the language model and the store.                            *)
(***************************************************************************)
PairUser == 1
PairOther == 2

MaxOthers == 1

PairMessages == {"I want a shirt", "add 1 and 3 to my cart", "show my cart"}

OtherMessages == {"add 1 and 3 to my cart"}

InitPair ==
    /\ client \in BOOLEAN
    /\ user_contexts = <<>>
    /\ db = EmptyStore
    /\ last = Idle
    /\ calls = [chat |-> 0, reset |-> 0, faults |-> 0, users |-> {}]
    /\ probe = [op |-> "twin", user_contexts |-> <<>>, db |-> EmptyStore, others |-> 0]

\* chat(PairUser, message) in both runs
OwnChat ==
    /\ probe.op = "twin"
    /\ calls.chat < MaxCalls
    /\ \E message \in PairMessages :
         \E e \in Envs(client, user_contexts, db, PairUser, message) :
         \E t \in {[run \in {"alone", "among"} |->
                      chat(IF run = "alone" THEN user_contexts ELSE probe.user_contexts,
                           IF run = "alone" THEN db ELSE probe.db,
                           client, PairUser, message, e)]} :
            /\ calls.faults + FaultsOf(e) <= MaxFaults
            /\ calls' = [calls EXCEPT !.chat = @ + 1, !.users = @ \cup {PairUser},
                                      !.faults = @ + FaultsOf(e)]
            /\ user_contexts' = t["alone"].user_contexts
            /\ db' = t["alone"].db
            /\ probe' = [probe EXCEPT !.user_contexts = t["among"].user_contexts,
                                      !.db = t["among"].db]
            /\ last' = [op |-> "own_chat", user_id |-> PairUser, message |-> message,
                        env |-> e, result |-> t["alone"].result,
                        twin |-> t["among"].result, raised |-> t["alone"].raised]
    /\ UNCHANGED client

\* reset_conversation(PairUser) in both runs
OwnReset ==
    /\ probe.op = "twin"
    /\ calls.reset < MaxResets
    /\ \E sid \in SessionIds, log \in {"up", "down"} :
         \E t \in {[run \in {"alone", "among"} |->
                      reset_conversation(
                          IF run = "alone" THEN user_contexts ELSE probe.user_contexts,
                          IF run = "alone" THEN db ELSE probe.db,
                          PairUser, sid, log)]} :
            /\ calls.faults + (IF log = "up" THEN 0 ELSE 1) <= MaxFaults
            /\ calls' = [calls EXCEPT !.reset = @ + 1, !.users = @ \cup {PairUser},
                                      !.faults = @ + (IF log = "up" THEN 0 ELSE 1)]
            /\ user_contexts' = t["alone"].user_contexts
            /\ db' = t["alone"].db
            /\ probe' = [probe EXCEPT !.user_contexts = t["among"].user_contexts,
                                      !.db = t["among"].db]
            /\ last' = [op |-> "own_reset", user_id |-> PairUser, log |-> log,
                        result |-> t["alone"].result, twin |-> t["among"].result,
                        raised |-> FALSE]
    /\ UNCHANGED client

\* chat(PairOther, message) in the second run only
OtherChat ==
    /\ probe.op = "twin"
    /\ probe.others < MaxOthers
    /\ \E message \in OtherMessages :
         \E e \in Envs(client, probe.user_contexts, probe.db, PairOther, message) :
         \E t \in {chat(probe.user_contexts, probe.db, client, PairOther, message, e)} :
            /\ FaultsOf(e) = 0
            /\ probe' = [probe EXCEPT !.user_contexts = t.user_contexts, !.db = t.db,
                                      !.others = @ + 1]
            /\ last' = [op |-> "other_chat", user_id |-> PairOther, message |-> message,
                        env |-> e, result |-> t.result, twin |-> t.result,
                        raised |-> t.raised]
    /\ UNCHANGED <<client, user_contexts, db, calls>>

NextPair == OwnChat \/ OwnReset \/ OtherChat

SpecPair == InitPair /\ [][NextPair]_vars

(***************************************************************************)
(* The helpers on their own: each step applies one helper to one input and *)
(* records the application in probe                                        *)
(***************************************************************************)
SlotTexts == {None, "", "shirt", "casual", "black"}

ProbeRanges == {NoRange, <<1600000, 2400000>>}

ProbeAdditional == {{}, {"size"}}

Slots(category, style, color) ==
    [SlotFillingState EXCEPT !.category = category, !.style = style, !.color = color]

\* the lists a search of the service leaves in last_products_shown
ShownLists ==
    { search_products_with_slots(slot_state, TRUE) :
        slot_state \in {Slots("shirt", None, "black"), Slots("shirt", "casual", None),
                        Slots("shirt", "formal", "white"), Slots("shoes", "casual", None)} }

ProbeContexts ==
    {ConversationContext(1),
     [ConversationContext(1) EXCEPT
        !.slot_state = Slots("shirt", None, None),
        !.current_intent = "search_products",
        !.last_products_shown = search_products_with_slots(Slots("shirt", None, "black"), TRUE)]}

ResolvedReference ==
    [x \in AllMessages \X ShownLists |-> resolve_product_reference(x[1], x[2])]

\* each helper is applied once to inputs drawn from the probe sets
InitPure ==
    /\ client = FALSE
    /\ user_contexts = <<>>
    /\ db = EmptyStore
    /\ last = Idle
    /\ calls = [chat |-> 0, reset |-> 0, faults |-> 0, users |-> {}]
    /\ probe = Idle

ApplyCheckCompleteness ==
    /\ probe = Idle
    /\ \E category \in SlotTexts \ {"casual", "black"},
          style \in SlotTexts \ {"shirt", "black"},
          color \in SlotTexts \ {"shirt", "casual"},
          price_range \in ProbeRanges, additional_attributes \in ProbeAdditional :
         LET slot_state == [Slots(category, style, color) EXCEPT
                               !.price_range = price_range,
                               !.additional_attributes = additional_attributes]
         IN  probe' = [op |-> "check_completeness", slot_state |-> slot_state,
                       out |-> check_completeness(slot_state)]
    /\ UNCHANGED <<client, user_contexts, db, last, calls>>

\* the classifier with the language model absent or out of reach
ApplyFallbackClassification ==
    /\ probe = Idle
    /\ \E message \in AllMessages, context \in ProbeContexts, has_client \in BOOLEAN :
         probe' = [op |-> "fallback_intent_classification", message |-> message,
                   context |-> context, has_client |-> has_client,
                   out |-> classify_intent_with_context(message, context, has_client,
                                                        "raise")]
    /\ UNCHANGED <<client, user_contexts, db, last, calls>>

\* the missing slots of a slot state and the question asked without the
\* language model
ApplyGetMissingSlots ==
    /\ probe = Idle
    /\ \E category \in SlotTexts \ {"casual", "black"},
          style \in SlotTexts \ {"shirt", "black"},
          color \in SlotTexts \ {"shirt", "casual"} :
         \E missing_slots \in {get_missing_slots(Slots(category, style, color))} :
            probe' = [op |-> "get_missing_slots",
                      slot_state |-> Slots(category, style, color),
                      out |-> missing_slots,
                      question |-> fallback_slot_question(missing_slots)]
    /\ UNCHANGED <<client, user_contexts, db, last, calls>>

ApplyFallbackExtraction ==
    /\ probe = Idle
    /\ \E message \in AllMessages :
         probe' = [op |-> "fallback_extract_attributes", message |-> message,
                   out |-> FallbackAttributes[message]]
    /\ UNCHANGED <<client, user_contexts, db, last, calls>>

ApplyResolveReference ==
    /\ probe = Idle
    /\ \E message \in AllMessages, shown \in ShownLists :
         probe' = [op |-> "resolve_product_reference", message |-> message,
                   shown |-> shown, out |-> ResolvedReference[<<message, shown>>]]
    /\ UNCHANGED <<client, user_contexts, db, last, calls>>

\* the stores the cart handlers are applied to: no cart; a cart of user 1
\* with products 6 and 1; a cart of user 2 with product 6 beside it; a cart
\* of user 1 with product 1 alone; that cart with its line removed; the two
\* carts with product 1 added to the cart of user 1 once more
ProbeStores ==
    LET one == add_products_to_cart(<<6, 1>>, 1, EmptyStore, TRUE).db
        two == add_products_to_cart(<<6>>, 2, one, TRUE).db
        three == add_products_to_cart(<<1>>, 1, EmptyStore, TRUE).db
        four == DeleteLines(three, CartOf(three, 1), 1)
        five == add_products_to_cart(<<1>>, 1, two, TRUE).db
    IN  {EmptyStore, one, two, three, four, five}

\* the environments of a cart handler: the store answers or is out of reach
ProbeEnvs == {Env(NotConsulted, NoConsult, NotConsulted, up, "up") : up \in {"up", "down"}}

ApplyAddToCart ==
    /\ probe = Idle
    /\ \E message \in AllMessages, context \in ProbeContexts, store \in ProbeStores,
          e \in ProbeEnvs :
         probe' = [op |-> "handle_add_to_cart", message |-> message, context |-> context,
                   store |-> store, env |-> e,
                   out |-> handle_add_to_cart(message, context, store, e)]
    /\ UNCHANGED <<client, user_contexts, db, last, calls>>

ApplyRemoveFromCart ==
    /\ probe = Idle
    /\ \E message \in AllMessages, context \in ProbeContexts, store \in ProbeStores,
          e \in ProbeEnvs :
         probe' = [op |-> "handle_remove_from_cart", message |-> message,
                   context |-> context, store |-> store, env |-> e,
                   out |-> handle_remove_from_cart(message, context, store, e)]
    /\ UNCHANGED <<client, user_contexts, db, last, calls>>

ApplyViewCart ==
    /\ probe = Idle
    /\ \E context \in ProbeContexts, store \in ProbeStores, e \in ProbeEnvs :
         probe' = [op |-> "handle_view_cart", context |-> context, store |-> store,
                   env |-> e, out |-> handle_view_cart(context, store, e)]
    /\ UNCHANGED <<client, user_contexts, db, last, calls>>

ApplyProductView ==
    /\ probe = Idle
    /\ \E message \in AllMessages, context \in ProbeContexts, e \in ProbeEnvs :
         probe' = [op |-> "handle_product_view", message |-> message,
                   context |-> context, store |-> EmptyStore, env |-> e,
                   out |-> handle_product_view(message, context, EmptyStore, e)]
    /\ UNCHANGED <<client, user_contexts, db, last, calls>>

NextPure ==
    \/ ApplyCheckCompleteness
    \/ ApplyFallbackClassification
    \/ ApplyGetMissingSlots
    \/ ApplyFallbackExtraction
    \/ ApplyResolveReference
    \/ ApplyAddToCart
    \/ ApplyRemoveFromCart
    \/ ApplyViewCart
    \/ ApplyProductView

SpecPure == InitPure /\ [][NextPure]_vars

(***************************************************************************)
(* Two requests of one user received together.  The endpoints of            *)
(* routers/chatbot.py are coroutines (async def) that call chat and         *)
(* reset_conversation without awaiting anything, so the event loop runs     *)
(* the statements of one call to its return before it starts the next.      *)
(* Here the statements of a call are separate steps; a call works on the    *)
(* context object it got from the store, also after a reset has taken the   *)
(* object out of the store.                                                 *)
(***************************************************************************)
LoopUser == 1

LoopEnvs ==
    {Env("raise", NoReply, "raise", "up", "up"),
     Env("search_products", [kind |-> "dict", attrs |-> Attrs(None, None, "black", NoRange)],
         "ok", "up", "up")}

\* a request as it is received: [kind, message, env] and the locals of the
\* call: pc, intent and result, and ctx = its context object once a reset has
\* taken the object out of the store (orphaned)
Request(kind, message, e) ==
    [kind |-> kind, message |-> message, env |-> e, pc |-> "start",
     orphaned |-> FALSE, ctx |-> ConversationContext(LoopUser), intent |-> None,
     result |-> NoResult]

LoopRequests ==
    {Request("chat", message, e) :
        message \in {"black", "looking for a casual shirt"}, e \in LoopEnvs}
    \cup {Request("reset", ResetMessage,
                  Env(NotConsulted, NoConsult, NotConsulted, "up", "up"))}

\* the contexts and the store the two requests find: nothing, or what a
\* first message "I want a shirt" has left
LoopBases(has_client) ==
    LET t == chat(<<>>, EmptyStore, has_client, LoopUser, "I want a shirt",
                  Env("raise", NoReply, "raise", "up", "up"))
    IN  {[user_contexts |-> <<>>, db |-> EmptyStore],
         [user_contexts |-> t.user_contexts, db |-> t.db]}

\* a variant in which the endpoints run in a pool of threads
MayRun_thread_pool(r, running) == TRUE

\* the event loop gives the thread to request r: no other call is under way
MayRun(r, running) == running \in {0, r}

InitLoop ==
    /\ client \in BOOLEAN
    /\ probe \in {[op |-> "serve", running |-> 0, base |-> base, req |-> <<q1, q2>>] :
                    base \in LoopBases(client), q1 \in LoopRequests, q2 \in LoopRequests}
    /\ user_contexts = probe.base.user_contexts
    /\ db = probe.base.db
    /\ last = Idle
    /\ calls = [chat |-> 0, reset |-> 0, faults |-> 0, users |-> {}]

\* the context object of a call
CtxOf(q, contexts) == IF q.orphaned THEN q.ctx ELSE contexts[LoopUser]

\* request r goes on to pc with its locals q, and the loop notes who runs
Goes(r, q, pc, running) ==
    probe' = [probe EXCEPT !.req[r] = [q EXCEPT !.pc = pc], !.running = running]

\* an assignment to the context object of request r, that then goes on to pc
Assigns(r, context, pc) ==
    LET q == probe.req[r] IN
    IF q.orphaned
    THEN /\ Goes(r, [q EXCEPT !.ctx = context], pc, r)
         /\ UNCHANGED user_contexts
    ELSE /\ Goes(r, q, pc, r)
         /\ user_contexts' = Put(user_contexts, LoopUser, context)

At(r, kind, pc) ==
    /\ probe.op = "serve"
    /\ probe.req[r].kind = kind
    /\ probe.req[r].pc = pc
    /\ MayRun(r, probe.running)

LoopBegin(r) ==
    /\ probe.op = "serve"
    /\ probe.req[r].pc = "start"
    /\ MayRun(r, probe.running)
    /\ Goes(r, probe.req[r], IF probe.req[r].kind = "chat" THEN "create" ELSE "delete", r)
    /\ UNCHANGED <<client, user_contexts, db, last, calls>>

\* context = self._get_or_create_context(user_id)
LoopCreate(r) ==
    /\ At(r, "chat", "create")
    /\ user_contexts' = get_or_create_context(user_contexts, LoopUser)
    /\ Goes(r, probe.req[r], "append", r)
    /\ UNCHANGED <<client, db, last, calls>>

\* context.messages.append({"role": "user", "content": message})
LoopAppend(r) ==
    /\ At(r, "chat", "append")
    /\ Assigns(r, [CtxOf(probe.req[r], user_contexts) EXCEPT
                      !.messages = Append(@, Msg("user", probe.req[r].message))],
               "load")
    /\ UNCHANGED <<client, db, last, calls>>

\* self._load_conversation_history(context)
LoopLoad(r) ==
    /\ At(r, "chat", "load")
    /\ Assigns(r, load_conversation_history(CtxOf(probe.req[r], user_contexts),
                                            RowsOf(db, LoopUser),
                                            probe.req[r].env.log # "down"),
               "classify")
    /\ UNCHANGED <<client, db, last, calls>>

\* intent_result = self._classify_intent_with_context(message, context);
\* intent_result["intent"] raises KeyError when the key is missing
LoopClassify(r) ==
    /\ At(r, "chat", "classify")
    /\ \E intent_result \in {classify_intent_with_context(
                                probe.req[r].message, CtxOf(probe.req[r], user_contexts),
                                client, probe.req[r].env.cls)} :
         IF intent_result.intent = Missing
         THEN Goes(r, [probe.req[r] EXCEPT !.result = ErrorResult], "return", r)
         ELSE Goes(r, [probe.req[r] EXCEPT !.intent = intent_result.intent], "handle", r)
    /\ UNCHANGED <<client, user_contexts, db, last, calls>>

\* result = self._handle_...(message, context)
LoopHandle(r) ==
    /\ At(r, "chat", "handle")
    /\ \E h \in {Dispatch(probe.req[r].intent, probe.req[r].message,
                          CtxOf(probe.req[r], user_contexts), db, client,
                          probe.req[r].env)} :
         /\ IF probe.req[r].orphaned
            THEN /\ Goes(r, [probe.req[r] EXCEPT
                                !.ctx = h.context,
                                !.result = IF h.raised THEN ErrorResult ELSE h.result],
                         IF h.raised THEN "return" ELSE "update", r)
                 /\ UNCHANGED user_contexts
            ELSE /\ Goes(r, [probe.req[r] EXCEPT
                                !.result = IF h.raised THEN ErrorResult ELSE h.result],
                         IF h.raised THEN "return" ELSE "update", r)
                 /\ user_contexts' = Put(user_contexts, LoopUser, h.context)
         /\ db' = h.db
    /\ UNCHANGED <<client, last, calls>>

\* context.current_intent = ...; context.last_action = ...;
\* context.messages.append({"role": "assistant", ...})
LoopUpdate(r) ==
    /\ At(r, "chat", "update")
    /\ Assigns(r, [CtxOf(probe.req[r], user_contexts) EXCEPT
                      !.current_intent = probe.req[r].intent,
                      !.last_action = probe.req[r].result.actions_performed[1],
                      !.messages = Append(@, Msg("assistant", probe.req[r].result.response))],
               "save")
    /\ UNCHANGED <<client, db, last, calls>>

\* conversation_id = self._save_conversation(...)
LoopSave(r) ==
    /\ At(r, "chat", "save")
    /\ db' = save_conversation(db, LoopUser, probe.req[r].message,
                               probe.req[r].result.response, probe.req[r].env.log).db
    /\ Goes(r, probe.req[r], "return", r)
    /\ UNCHANGED <<client, user_contexts, last, calls>>

\* if user_id in self.user_contexts: del self.user_contexts[user_id]
\* (a chat call under way keeps the object it holds)
LoopDelete(r) ==
    /\ At(r, "reset", "delete")
    /\ user_contexts' = IF LoopUser \in DOMAIN user_contexts
                        THEN Del(user_contexts, LoopUser) ELSE user_contexts
    /\ probe' = [probe EXCEPT
                    !.running = r,
                    !.req = [n \in DOMAIN @ |->
                                IF n = r THEN [@[n] EXCEPT !.pc = "log"]
                                ELSE IF /\ @[n].kind = "chat"
                                        /\ @[n].pc \in {"append", "load", "classify",
                                                        "handle", "update"}
                                        /\ ~@[n].orphaned
                                THEN [@[n] EXCEPT !.orphaned = TRUE,
                                                  !.ctx = user_contexts[LoopUser]]
                                ELSE @[n]]]
    /\ UNCHANGED <<client, db, last, calls>>

\* conversation_id = self._save_conversation(reset_message, reset_response)
LoopLogReset(r) ==
    /\ At(r, "reset", "log")
    /\ db' = save_conversation(db, LoopUser, ResetMessage, ResetResponse,
                               probe.req[r].env.log).db
    /\ Goes(r, probe.req[r], "return", r)
    /\ UNCHANGED <<client, user_contexts, last, calls>>

\* return result: the coroutine ends and the loop takes the next request
LoopReturn(r) ==
    /\ probe.op = "serve"
    /\ probe.req[r].pc = "return"
    /\ MayRun(r, probe.running)
    /\ Goes(r, probe.req[r], "done", 0)
    /\ UNCHANGED <<client, user_contexts, db, last, calls>>

NextLoop ==
    \E r \in {1, 2} :
        \/ LoopBegin(r)
        \/ LoopCreate(r)
        \/ LoopAppend(r)
        \/ LoopLoad(r)
        \/ LoopClassify(r)
        \/ LoopHandle(r)
        \/ LoopUpdate(r)
        \/ LoopSave(r)
        \/ LoopDelete(r)
        \/ LoopLogReset(r)
        \/ LoopReturn(r)

SpecLoop == InitLoop /\ [][NextLoop]_vars

(***************************************************************************)
(* add_to_cart turns of one user for one product received together.  The   *)
(* statements of _add_products_to_cart are separate steps: read the cart,  *)
(* create it when there is none, read the line, update or insert it.  The  *)
(* event loop schedules the turns as it schedules every call of chat.      *)
(***************************************************************************)
CartUser == 1

\* an in-stock product
CartProduct == 1

MaxAdds == 3

\* the locals of a turn: cart = the CartID read (0: no row), existing_item =
\* the (CartItemID, Quantity) read (CartItemID 0: no row)
CartRequest(store_state) ==
    [store |-> store_state, pc |-> "start", cart |-> 0,
     existing_item |-> [CartItemID |-> 0, Quantity |-> 0], added |-> FALSE]

\* the stores the turns find: no cart, a cart with the line, and that cart
\* after the line was removed
CartBases ==
    LET with_line == add_products_to_cart(<<CartProduct>>, CartUser, EmptyStore, TRUE).db
    IN  {EmptyStore, with_line,
         DeleteLines(with_line, CartOf(with_line, CartUser), CartProduct)}

InitCart ==
    /\ client = FALSE
    /\ user_contexts = <<>>
    /\ last = Idle
    /\ calls = [chat |-> 0, reset |-> 0, faults |-> 0, users |-> {}]
    /\ probe \in {[op |-> "add", running |-> 0, base |-> base,
                    req |-> [r \in 1..MaxAdds |-> CartRequest(up[r])]] :
                    base \in CartBases, up \in [1..MaxAdds -> {"up", "down"}]}
    /\ db = probe.base

AddAt(r, pc) ==
    /\ probe.op = "add"
    /\ probe.req[r].pc = pc
    /\ MayRun(r, probe.running)

\* conn = get_connection(): raises when the store is out of reach, and the
\* except branch returns the apology
AddBegin(r) ==
    /\ AddAt(r, "start")
    /\ Goes(r, probe.req[r],
            IF probe.req[r].store = "up" THEN "select_cart" ELSE "return", r)
    /\ UNCHANGED <<client, user_contexts, db, last, calls>>

\* SELECT CartID FROM Cart WHERE UserID = ? ; cart = cursor.fetchone()
AddSelectCart(r) ==
    /\ AddAt(r, "select_cart") \/ AddAt(r, "select_cart_again")
    /\ \E cart \in {CartOf(db, CartUser)} :
         Goes(r, [probe.req[r] EXCEPT !.cart = cart],
              IF cart = 0 /\ probe.req[r].pc = "select_cart"
              THEN "insert_cart" ELSE "select_line", r)
    /\ UNCHANGED <<client, user_contexts, db, last, calls>>

\* INSERT INTO Cart (UserID) VALUES (?) ; conn.commit()
AddInsertCart(r) ==
    /\ AddAt(r, "insert_cart")
    /\ db' = [db EXCEPT !.Cart = Append(@, CartUser)]
    /\ Goes(r, probe.req[r], "select_cart_again", r)
    /\ UNCHANGED <<client, user_contexts, last, calls>>

\* SELECT CartItemID, Quantity FROM CartItems WHERE CartID = ? AND
\* ProductID = ? ; existing_item = cursor.fetchone()
AddSelectLine(r) ==
    /\ AddAt(r, "select_line")
    /\ InStock(CartProduct)
    /\ \E line \in {LineOf(db, probe.req[r].cart, CartProduct)} :
         Goes(r, [probe.req[r] EXCEPT !.existing_item =
                     IF line = 0 THEN [CartItemID |-> 0, Quantity |-> 0]
                     ELSE [CartItemID |-> db.CartItems[line].CartItemID,
                           Quantity |-> db.CartItems[line].Quantity]],
              "write_line", r)
    /\ UNCHANGED <<client, user_contexts, db, last, calls>>

\* UPDATE CartItems SET Quantity = ? WHERE CartItemID = ?  or
\* INSERT INTO CartItems (CartID, ProductID, Quantity) VALUES (?, ?, 1)
AddWriteLine(r) ==
    /\ AddAt(r, "write_line")
    /\ LET q == probe.req[r] IN
       IF q.existing_item.CartItemID # 0
       THEN db' = [db EXCEPT !.CartItems =
                      [i \in DOMAIN @ |->
                          IF @[i].CartItemID = q.existing_item.CartItemID
                          THEN [@[i] EXCEPT !.Quantity = q.existing_item.Quantity + 1]
                          ELSE @[i]]]
       ELSE db' = [db EXCEPT
                      !.CartItems = Append(@, [CartItemID |-> db.identity.CartItems + 1,
                                               CartID |-> q.cart,
                                               ProductID |-> CartProduct,
                                               Quantity |-> 1]),
                      !.identity.CartItems = @ + 1]
    /\ Goes(r, [probe.req[r] EXCEPT !.added = TRUE], "return", r)
    /\ UNCHANGED <<client, user_contexts, last, calls>>

\* conn.commit(); conn.close(); return ...: the turn ends
AddReturn(r) ==
    /\ AddAt(r, "return")
    /\ Goes(r, probe.req[r], "done", 0)
    /\ UNCHANGED <<client, user_contexts, db, last, calls>>

NextCart ==
    \E r \in 1..MaxAdds :
        \/ AddBegin(r)
        \/ AddSelectCart(r)
        \/ AddInsertCart(r)
        \/ AddSelectLine(r)
        \/ AddWriteLine(r)
        \/ AddReturn(r)

SpecCart == InitCart /\ [][NextCart]_vars

(***************************************************************************)
(* Properties                                                              *)
(***************************************************************************)
\* the slot state of a user after the last call (the empty one without context)
SlotStateOf(contexts, user_id) ==
    IF user_id \in DOMAIN contexts THEN contexts[user_id].slot_state ELSE SlotFillingState

ShownTo(contexts, user_id) ==
    IF user_id \in DOMAIN contexts THEN contexts[user_id].last_products_shown ELSE <<>>

AskedToClarify ==
    /\ last.op = "chat"
    /\ ~last.raised
    /\ last.result.actions_performed[1].type = "slot_filling"

\* C1 as stated: chat returns a result, and every failure of the language
\* model or of the store at any step gives the apologetic result with intent
\* "error" and no products.
C1_EveryFailureGivesError ==
    (/\ last.op = "chat"
     /\ \/ client /\ last.env.cls = "raise"
        \/ last.env.store = "down"
        \/ last.env.log = "down")
    => last.result.intent = "error" /\ last.result.products = <<>>

\* C1 amended: chat always returns a result.  It is the apologetic result
\* (intent "error", no products) exactly when an exception leaves a step of
\* the turn: the classifier's answer has no "intent", or the extractor's
\* answer is no object.  A language model or store that is out of reach is
\* recovered by the fallbacks and the handlers, and the turn is answered
\* under an intent other than "error".
C1_ErrorOnlyWhenExceptionEscapes ==
    last.op = "chat" =>
        /\ last.raised <=> last.result.intent = "error"
        /\ last.raised => last.result = ErrorResult /\ last.result.products = <<>>
        /\ last.raised <=>
              \/ last.env.cls = Missing
              \/ /\ client
                 /\ last.intent = "search_products"
                 /\ last.env.ext.kind = "not_object"

\* a turn whose classifier call failed and that the fallback answered
C1_FailureRecovered ==
    /\ last.op = "chat"
    /\ client
    /\ last.env.cls = "raise"
    /\ ~last.raised
    /\ last.result.intent # "error"

\* C2 as stated: after reset_conversation(u), any chat call of u gives the
\* result and the context that the same call gives to a user who has never
\* chatted (no context, no rows in Conversations).
C2_ChatAfterResetIsChatOfNewUser ==
    last.op = "reset" =>
        \A message \in Messages :
            \A e \in Envs(client, user_contexts, db, last.user_id, message) :
                LET u == last.user_id
                    never_chatted ==
                        [db EXCEPT !.Conversations =
                            SelectSeq(@, LAMBDA row : row.UserID # u)]
                    after == chat(user_contexts, db, client, u, message, e)
                    fresh == chat(user_contexts, never_chatted, client, u, message, e)
                IN  /\ [after.result EXCEPT !.conversation_id = 0]
                         = [fresh.result EXCEPT !.conversation_id = 0]
                    /\ after.user_contexts[u] = fresh.user_contexts[u]

\* C3: check_completeness is true iff category is non-empty and style or
\* color is non-empty, whatever price_range and additional_attributes hold.
C3_CompleteIffCategoryAndStyleOrColor ==
    probe.op = "check_completeness" =>
        LET s == probe.slot_state
            set(v) == v # None /\ v # ""
        IN  probe.out <=> (set(s.category) /\ (set(s.style) \/ set(s.color)))

C3_CompleteWithoutPrice ==
    /\ probe.op = "check_completeness"
    /\ probe.out
    /\ probe.slot_state.style = ""
    /\ probe.slot_state.color = "black"
    /\ probe.slot_state.price_range = NoRange

\* C4: when a search_products turn has executed the product search, the
\* user's slot state is empty when chat returns (category, style, color and
\* price_range absent), whether the search gave products, none, or failed.
C4_SlotStateEmptyAfterSearch ==
    (last.op = "chat" /\ last.searched) =>
        LET s == SlotStateOf(user_contexts, last.user_id) IN
        /\ s.category = None
        /\ s.style = None
        /\ s.color = None
        /\ s.price_range = NoRange

\* a search whose product query failed
C4_SearchedWithStoreDown ==
    /\ last.op = "chat"
    /\ last.searched
    /\ last.env.store = "down"
    /\ last.result.products = <<>>

\* C5 as stated: when a turn returns a slot_filling action, at least one of
\* category, style, color, price_range of the user's slot state is set.
C5_SlotStateSetWhenClarifying ==
    AskedToClarify =>
        LET s == SlotStateOf(user_contexts, last.user_id) IN
        \/ Truthy(s.category)
        \/ Truthy(s.style)
        \/ Truthy(s.color)
        \/ s.price_range # NoRange

\* C5 amended: when a turn returns a slot_filling action, the user's slot
\* state is incomplete and holds every attribute the turn extracted; it is
\* empty when no turn since the last search extracted one.
C5_SlotStateIncompleteWhenClarifying ==
    AskedToClarify =>
        LET s == SlotStateOf(user_contexts, last.user_id)
            x == extract_product_attributes(last.message, client, last.env.ext).attrs
        IN  /\ ~Truthy(s.category) \/ (~Truthy(s.style) /\ ~Truthy(s.color))
            /\ Truthy(x.category) => s.category = x.category
            /\ Truthy(x.style) => s.style = x.style
            /\ Truthy(x.color) => s.color = x.color
            /\ x.price_range # NoRange => s.price_range = x.price_range

\* a clarifying question asked with the color extracted and kept
C5_ClarifyingWithColor ==
    /\ AskedToClarify
    /\ SlotStateOf(user_contexts, last.user_id).color = "black"
    /\ ~Truthy(SlotStateOf(user_contexts, last.user_id).category)

\* C6 as stated: for a user whose slot state is {category: "shirt"} with a
\* clarifying question pending, the message "black" is routed to the search
\* handler, the search runs in that turn, the slot state is empty afterwards
\* and last_products_shown is the search result; on the fallback path, and
\* when the classifier of the language model answers search_products.
C6_BlackCompletesShirt ==
    \A u \in DOMAIN user_contexts :
        (/\ user_contexts[u].slot_state = Slots("shirt", None, None)
         /\ user_contexts[u].last_action.type = "slot_filling")
        => \A cls \in {"raise"} \cup (IF client THEN {"search_products"} ELSE {}) :
              LET t == chat(user_contexts, db, client, u, "black",
                            Env(cls, NoReply, "raise", "up", "up"))
              IN  /\ t.intent = "search_products"
                  /\ t.searched
                  /\ t.user_contexts[u].slot_state = SlotFillingState
                  /\ t.user_contexts[u].last_products_shown = t.result.products

\* C7: on a search_products turn whose slot state is incomplete after the
\* merge of the extracted attributes, no search runs, the result has no
\* products, last_products_shown is as before, and actions_performed is one
\* slot_filling descriptor whose slot is a slot that is missing.
C7_IncompleteTurnAsksWithoutSearching ==
    [][ LET u == last'.user_id
            x == extract_product_attributes(last'.message, client, last'.env.ext).attrs
            merged == MergeSlots(SlotStateOf(user_contexts, u), x)
            action == last'.result.actions_performed
        IN  (/\ last'.op = "chat"
             /\ ~last'.raised
             /\ last'.intent = "search_products"
             /\ ~Truthy(merged.category)
                  \/ (~Truthy(merged.style) /\ ~Truthy(merged.color)))
            => /\ ~last'.searched
               /\ last'.result.products = <<>>
               /\ ShownTo(user_contexts', u) = ShownTo(user_contexts, u)
               /\ Len(action) = 1
               /\ action[1].type = "slot_filling"
               /\ action[1].slot \in {"category", "style", "color"}
               /\ action[1].slot = "category" => ~Truthy(merged.category)
               /\ action[1].slot \in {"style", "color"}
                    => ~Truthy(merged.style) /\ ~Truthy(merged.color)
      ]_vars

\* a clarifying question asked of a user who has been shown products
C7_ClarifyingAfterProductsShown ==
    /\ AskedToClarify
    /\ ~last.searched
    /\ last.result.products = <<>>
    /\ ShownTo(user_contexts, last.user_id) # <<>>
    /\ last.result.actions_performed[1].slot = "category"

\* C8: with the language model absent or out of reach the classifier gives
\* the label of the first rule that applies - cart/basket with add/put:
\* add_to_cart; cart/basket with remove/delete: remove_from_cart; cart/basket:
\* view_cart; product/item with a digit: product_view; find/search/looking/
\* want/need/show: search_products; else friendly_chat - with confidence 0.8,
\* 0.7 for friendly_chat, whatever the context holds.
C8_FallbackClassifierIsRuleTable ==
    probe.op = "fallback_intent_classification" =>
        LET m == lower(probe.message)
            cart == Contains(m, "cart") \/ Contains(m, "basket")
            label ==
                CASE cart /\ (Contains(m, "add") \/ Contains(m, "put")) -> "add_to_cart"
                  [] cart /\ ~(Contains(m, "add") \/ Contains(m, "put"))
                          /\ (Contains(m, "remove") \/ Contains(m, "delete"))
                       -> "remove_from_cart"
                  [] cart /\ ~(Contains(m, "add") \/ Contains(m, "put"))
                          /\ ~(Contains(m, "remove") \/ Contains(m, "delete"))
                       -> "view_cart"
                  [] ~cart /\ (Contains(m, "product") \/ Contains(m, "item"))
                           /\ HasDigit(probe.message)
                       -> "product_view"
                  [] /\ ~cart
                     /\ ~((Contains(m, "product") \/ Contains(m, "item"))
                            /\ HasDigit(probe.message))
                     /\ \E w \in {"find", "search", "looking", "want", "need", "show"} :
                           Contains(m, w)
                       -> "search_products"
                  [] OTHER -> "friendly_chat"
        IN  /\ probe.out.intent = label
            /\ probe.out.confidence = IF label = "friendly_chat" THEN 7 ELSE 8

\* the rule table applied with the language model out of reach and a slot
\* state half filled
C8_RemoveRuleWithSessionState ==
    /\ probe.op = "fallback_intent_classification"
    /\ probe.has_client
    /\ probe.context.slot_state.category = "shirt"
    /\ probe.out.intent = "remove_from_cart"

\* C9 as stated: for a message with one ordinal word and no explicit id the
\* resolver gives the product at the ordinal's position when the position is
\* within the list, and nothing when it is beyond the list.
C9_OrdinalBeyondListIsAbsent ==
    probe.op = "resolve_product_reference" =>
        LET m == lower(probe.message)
            hits == {k \in 1..Len(ordinals) : Contains(m, ordinals[k][1])}
        IN  (Cardinality(hits) = 1 /\ ProductIdsIn[probe.message] = <<>>) =>
                LET position == ordinals[CHOOSE k \in hits : TRUE][2] IN
                probe.out = IF position < Len(probe.shown)
                            THEN probe.shown[position + 1].ProductID
                            ELSE 0

\* C9 amended: ... and when the position is beyond the list, the first
\* product of the list whose color or style occurs in the message, nothing
\* when there is none.
C9_OrdinalBeyondListFallsToAttributes ==
    probe.op = "resolve_product_reference" =>
        LET m == lower(probe.message)
            hits == {k \in 1..Len(ordinals) : Contains(m, ordinals[k][1])}
            named == {n \in 1..Len(probe.shown) :
                        \/ Contains(m, lower(probe.shown[n].Color))
                        \/ Contains(m, lower(probe.shown[n].Style))}
        IN  (Cardinality(hits) = 1 /\ ProductIdsIn[probe.message] = <<>>) =>
                LET position == ordinals[CHOOSE k \in hits : TRUE][2] IN
                probe.out = IF position < Len(probe.shown)
                            THEN probe.shown[position + 1].ProductID
                            ELSE IF named # {}
                            THEN probe.shown[CHOOSE n \in named :
                                                \A h \in named : n <= h].ProductID
                            ELSE 0

\* an ordinal beyond the list in a message that names no color or style
C9_ThirdOfTwoIsAbsent ==
    /\ probe.op = "resolve_product_reference"
    /\ probe.message = "add the third one"
    /\ Len(probe.shown) = 2
    /\ probe.out = 0

\* C10 as stated: for a message with a numeric token v the fallback price
\* range is <<0.8 v', 1.2 v'>> with v' = 1000 v exactly when the token is
\* immediately followed by the letter k, and v' = v otherwise.
C10_TimesThousandIffTrailingK ==
    (probe.op = "fallback_extract_attributes" /\ HasDigit(probe.message)) =>
        LET m == lower(probe.message)
            first == FirstDigit(m)
            end == RunEnd(m, first)
            v == ToInt(SubSeq(m, first, end))
            scaled == IF end < Len(m) /\ Char(m, end + 1) = "k" THEN 1000 * v ELSE v
        IN  probe.out.price_range = <<8 * scaled, 12 * scaled>>

\* C11 as stated: the fallback extraction gives, for each slot type on its
\* own, the first vocabulary entry in list order that occurs in the lowered
\* message (categories by ascending category id, then keyword order; the
\* style list; the color list) and leaves the slot out when none occurs;
\* "looking for a black casual shirt" gives shirt, black, casual, no price.
C11_FirstEntryPerSlotType ==
    probe.op = "fallback_extract_attributes" =>
        LET m == lower(probe.message)
            keywords == category_mapping[1] \o category_mapping[2] \o category_mapping[3]
                        \o category_mapping[4] \o category_mapping[5] \o category_mapping[6]
            occurs(options) == {i \in 1..Len(options) : Contains(m, options[i])}
            first(options) ==
                IF occurs(options) = {} THEN None
                ELSE options[CHOOSE i \in occurs(options) : \A j \in occurs(options) : i <= j]
        IN  /\ probe.out.category = first(keywords)
            /\ probe.out.style = first(style_options)
            /\ probe.out.color = first(color_options)
            /\ probe.message = "looking for a black casual shirt"
                 => probe.out = Attrs("shirt", "casual", "black", NoRange)

\* the quantity a user's cart holds of a product (0 without cart or line)
RECURSIVE SumQuantity(_, _, _, _)
SumQuantity(rows, cart_id, product_id, i) ==
    IF i > Len(rows) THEN 0
    ELSE (IF IsLine(rows[i], cart_id, product_id) THEN rows[i].Quantity ELSE 0)
            + SumQuantity(rows, cart_id, product_id, i + 1)

CartQuantity(store, user_id, product_id) ==
    IF CartOf(store, user_id) = 0 THEN 0
    ELSE SumQuantity(store.CartItems, CartOf(store, user_id), product_id, 1)

\* the lines a user's cart holds of a product
CartLineCount(store, user_id, product_id) ==
    IF CartOf(store, user_id) = 0 THEN 0
    ELSE Cardinality({i \in 1..Len(store.CartItems) :
                        IsLine(store.CartItems[i], CartOf(store, user_id), product_id)})

Occurrences(seq, x) == Cardinality({i \in 1..Len(seq) : seq[i] = x})

\* the product ids the models' messages can name
NamedProductIds == ProductIDs \cup {12}

\* C12: with the store in reach, add_to_cart raises the quantity of the
\* line of the requesting user's cart by one for each resolved id that
\* exists with positive stock (a new line of quantity 1 when there is none,
\* the one existing line incremented otherwise); ids that do not exist or
\* have no stock change nothing and the ids after them are still added; no
\* other user's cart changes; "add the first one to my cart" with products
\* shown affects the first product shown.
C12_AddToCartAddsOnePerAvailableId ==
    (probe.op = "handle_add_to_cart" /\ probe.env.store = "up") =>
        LET u == probe.context.user_id
            shown == probe.context.last_products_shown
            explicit == ProductIdsIn[probe.message]
            reference == IF explicit = <<>> /\ shown # <<>>
                         THEN ResolvedReference[<<probe.message, shown>>] ELSE 0
            ids == IF explicit # <<>> THEN explicit
                   ELSE IF reference # 0 THEN <<reference>> ELSE <<>>
        IN  /\ \A v \in Users, p \in NamedProductIds :
                  /\ CartQuantity(probe.out.db, v, p)
                        = CartQuantity(probe.store, v, p)
                            + (IF v = u /\ InStock(p) THEN Occurrences(ids, p) ELSE 0)
                  /\ CartLineCount(probe.out.db, v, p)
                        = IF CartQuantity(probe.out.db, v, p) > 0 THEN 1 ELSE 0
            /\ (probe.message = "add the first one to my cart" /\ shown # <<>>)
                 => /\ ids = <<shown[1].ProductID>>
                    /\ CartQuantity(probe.out.db, u, shown[1].ProductID)
                          = CartQuantity(probe.store, u, shown[1].ProductID) + 1

\* "add the first one to my cart" increments the line the user's cart holds
\* of the first product shown
C12_FirstShownIncremented ==
    /\ probe.op = "handle_add_to_cart"
    /\ probe.env.store = "up"
    /\ probe.message = "add the first one to my cart"
    /\ probe.context.last_products_shown # <<>>
    /\ CartQuantity(probe.store, 1, probe.context.last_products_shown[1].ProductID) = 1
    /\ CartQuantity(probe.out.db, 1, probe.context.last_products_shown[1].ProductID) = 2
    /\ CartLineCount(probe.out.db, 1, probe.context.last_products_shown[1].ProductID) = 1

\* the lines a user's cart holds
CartSize(store, user_id) ==
    IF CartOf(store, user_id) = 0 THEN 0
    ELSE Cardinality({i \in 1..Len(store.CartItems) :
                        store.CartItems[i].CartID = CartOf(store, user_id)})

SaysCartIsEmpty(response) == Contains(response, "Your cart is now empty.")

\* the explicit ids of the message that the user's cart holds a line of
RemovableIds(message, store, user_id) ==
    {p \in NamedProductIds :
        Occurrences(ProductIdsIn[message], p) > 0 /\ CartQuantity(store, user_id, p) > 0}

\* lines of the requesting user go exactly for the explicit ids of the
\* message, and no other line changes
RemoveFrame ==
    \A v \in Users, p \in NamedProductIds :
        CartQuantity(probe.out.db, v, p)
            = IF v = probe.context.user_id /\ Occurrences(ProductIdsIn[probe.message], p) > 0
              THEN 0 ELSE CartQuantity(probe.store, v, p)

\* C13 as stated: with the store in reach, remove_from_cart deletes exactly
\* the lines of the requesting user's cart whose product id is an explicit
\* id of the message (none without explicit id, whatever the message refers
\* to and whatever has been shown); no other line changes; the reply gives
\* the number of ids removed and, when the message names an id and the user
\* has a cart, says the cart is empty exactly when no line remains.
C13_RemoveReportsEmptyIffNoLineRemains ==
    (probe.op = "handle_remove_from_cart" /\ probe.env.store = "up") =>
        LET u == probe.context.user_id
            removed == Cardinality(RemovableIds(probe.message, probe.store, u))
        IN  /\ RemoveFrame
            /\ removed > 0 =>
                  Contains(probe.out.result.response,
                           "Removed " \o ToString(removed) \o " item(s)")
            /\ (ProductIdsIn[probe.message] # <<>> /\ CartOf(probe.store, u) # 0) =>
                  (SaysCartIsEmpty(probe.out.result.response)
                     <=> CartSize(probe.out.db, u) = 0)

\* C13 amended: ... the reply gives the number of ids removed and says the
\* cart is empty exactly when no line remains, in a turn that removes at
\* least one line; a turn that removes none says nothing of the count or of
\* an empty cart: it asks for an id, says there is no cart, or says the
\* items are not in the cart.
C13_RemoveReportsEmptyWhenRemoving ==
    (probe.op = "handle_remove_from_cart" /\ probe.env.store = "up") =>
        LET u == probe.context.user_id
            removed == Cardinality(RemovableIds(probe.message, probe.store, u))
            response == probe.out.result.response
        IN  /\ RemoveFrame
            /\ removed > 0 =>
                  /\ Contains(response, "Removed " \o ToString(removed) \o " item(s)")
                  /\ SaysCartIsEmpty(response) <=> CartSize(probe.out.db, u) = 0
                  /\ ~SaysCartIsEmpty(response) =>
                        Contains(response, "You still have "
                                    \o ToString(CartSize(probe.out.db, u)) \o " item(s)")
            /\ removed = 0 =>
                  /\ probe.out.db = probe.store
                  /\ response =
                        IF ProductIdsIn[probe.message] = <<>>
                        THEN "Please specify which product to remove (e.g., 'remove product 123')."
                        ELSE IF CartOf(probe.store, u) = 0
                        THEN "You don't have a cart yet. Try adding some products first!"
                        ELSE "Could not find those items in your cart."

\* the one line of a cart removed
C13_LastLineRemoved ==
    /\ probe.op = "handle_remove_from_cart"
    /\ probe.env.store = "up"
    /\ probe.message = "Remove product 1 from my CART"
    /\ CartSize(probe.store, 1) = 1
    /\ CartSize(probe.out.db, 1) = 0
    /\ SaysCartIsEmpty(probe.out.result.response)

\* C14: reset_conversation(u) returns, and when it returns the store of
\* contexts holds none for u - whether it held one before, and whether the
\* reset event was written to Conversations or not; the result carries the
\* fixed confirmation and the session id generated in the call; the context
\* of every other user is as it was.
C14_ResetRemovesOwnContextOnly ==
    [][ (last'.op = "reset" /\ calls'.reset = calls.reset + 1) =>
            /\ last'.user_id \notin DOMAIN user_contexts'
            /\ DOMAIN user_contexts' = DOMAIN user_contexts \ {last'.user_id}
            /\ \A v \in DOMAIN user_contexts' : user_contexts'[v] = user_contexts[v]
            /\ last'.result.response = ResetResponse
            /\ last'.result.status = "reset_successful"
            /\ last'.result.session_id \in SessionIds
            /\ Len(last'.result.session_id) = 8
            /\ last'.log = "down" <=> last'.result.conversation_id = 0
      ]_vars

\* a reset whose event could not be written, of a user who has chatted
C14_ResetWithLogDown ==
    /\ last.op = "reset"
    /\ last.log = "down"
    /\ RowsOf(db, last.user_id) # <<>>
    /\ last.user_id \notin DOMAIN user_contexts
    /\ last.result.conversation_id = 0
    /\ last.result.session_id \in SessionIds

\* C15 as stated: a call of the language model that fails - it raises
\* (transport error, timeout, unparsable text) or answers JSON that is not
\* the expected object (no "intent", not an object) - in the classifier,
\* the extractor, the question generator, the formatter or the small talk
\* is recovered by the fallback: the turn is routed by the rule table when
\* the classifier failed, and chat never returns the error result.
C15_ModelFailureNeverGivesError ==
    (/\ last.op = "chat"
     /\ client
     /\ \/ last.env.cls \in {"raise", Missing}
        \/ last.env.ext.kind \in {"raise", "not_object"}
        \/ last.env.gen = "raise")
    => /\ last.result.intent # "error"
       /\ ~last.raised
       /\ last.env.cls \in {"raise", Missing}
            => last.intent = FallbackIntent[last.message].intent

\* C16: a chat turn whose write to Conversations fails returns the result
\* of its handler - response, products, actions and intent as when the
\* write succeeds, never intent "error" - and leaves the context as the
\* successful turn does; the write is tried a second time with the fields
\* user id, role and message, and given up silently when that fails too.
C16_LogWriteFailureLeavesTurnAsIs ==
    [][ (/\ last'.op = "chat"
         /\ calls'.chat = calls.chat + 1
         /\ ~last'.raised
         /\ last'.env.log \in {"retry", "noinsert"})
        => LET u == last'.user_id
               written == chat(user_contexts, db, client, u, last'.message,
                               [last'.env EXCEPT !.log = "up"])
           IN  /\ last'.result.response = written.result.response
               /\ last'.result.products = written.result.products
               /\ last'.result.actions_performed = written.result.actions_performed
               /\ last'.result.intent = written.result.intent
               /\ last'.result.intent # "error"
               /\ user_contexts' = written.user_contexts
               /\ last'.attempts = 2
               /\ db'.Conversations =
                     IF last'.env.log = "noinsert" THEN db.Conversations
                     ELSE db.Conversations
                            \o <<ConversationRow(u, 1, last'.message),
                                 ConversationRow(u, 2, last'.result.response)>>
      ]_vars

\* a search turn answered though neither attempt to write it succeeded
C16_TurnAnsweredUnwritten ==
    /\ last.op = "chat"
    /\ last.env.log = "noinsert"
    /\ ~last.raised
    /\ last.attempts = 2
    /\ last.intent = "search_products"
    /\ RowsOf(db, last.user_id) = <<>>
    /\ Len(user_contexts[last.user_id].messages) = 2

\* a request served on its own: the contexts and the store it leaves
Serve(state, q) ==
    IF q.kind = "chat"
    THEN LET t == chat(state.user_contexts, state.db, client, LoopUser, q.message, q.env)
         IN  [user_contexts |-> t.user_contexts, db |-> t.db]
    ELSE LET t == reset_conversation(state.user_contexts, state.db, LoopUser,
                                     "1a2b3c4d", q.env.log)
         IN  [user_contexts |-> t.user_contexts, db |-> t.db]

\* what the two requests leave when one is served after the other
SerialOutcomes ==
    { Serve(Serve(probe.base, probe.req[o[1]]), probe.req[o[2]]) : o \in {<<1, 2>>, <<2, 1>>} }

C18_ContextFromChatUntilOwnReset ==
    [][ /\ (last'.op = "chat" /\ calls'.chat = calls.chat + 1)
           => DOMAIN user_contexts' = DOMAIN user_contexts \cup {last'.user_id}
        /\ (last'.op = "reset" /\ calls'.reset = calls.reset + 1)
           => DOMAIN user_contexts' = DOMAIN user_contexts \ {last'.user_id}
        /\ (calls'.chat = calls.chat /\ calls'.reset = calls.reset)
           => DOMAIN user_contexts' = DOMAIN user_contexts
        /\ calls.chat + calls.reset = 0 => user_contexts = <<>>
      ]_vars

\* a chat call after the user's reset that ends in the error result and
\* leaves a context
C18_ContextAfterFailedCall ==
    /\ last.op = "chat"
    /\ last.raised
    /\ calls.reset = 1
    /\ \E i \in 1..Len(db.Conversations) :
          /\ db.Conversations[i].UserID = last.user_id
          /\ db.Conversations[i].Message = ResetMessage
    /\ last.user_id \in DOMAIN user_contexts

\* C19 as stated: a chat call that fails before its handler returns (the
\* classifier's or the extractor's answer cannot be used) and ends in the
\* error result leaves the user's context - messages, slot state, products
\* shown, current intent, last action - exactly as it was before the call.
C19_FailedCallLeavesContextAsBefore ==
    [][ (/\ last'.op = "chat"
         /\ calls'.chat = calls.chat + 1
         /\ last'.raised
         /\ last'.user_id \in DOMAIN user_contexts)
        => user_contexts'[last'.user_id] = user_contexts[last'.user_id]
      ]_vars

\* C20: on a search_products turn each of category, style, color and
\* price_range that the extractor gives non-empty replaces the stored value,
\* and each that it gives absent, null or empty keeps the stored value (the
\* slot state is the merge when the turn asks, and the empty one when the
\* merge is complete and the search runs); outside an executed search of the
\* user no filled slot of a context becomes unset.
C20_MergeKeepsFilledSlots ==
    [][ (last'.op = "chat" /\ calls'.chat = calls.chat + 1) =>
          LET u == last'.user_id
              before == SlotStateOf(user_contexts, u)
              after == SlotStateOf(user_contexts', u)
              x == extract_product_attributes(last'.message, client, last'.env.ext).attrs
              given(v) == v # None /\ v # ""
          IN  /\ (last'.intent = "search_products" /\ ~last'.raised /\ ~last'.searched)
                 => /\ after.category = IF given(x.category) THEN x.category
                                        ELSE before.category
                    /\ after.style = IF given(x.style) THEN x.style ELSE before.style
                    /\ after.color = IF given(x.color) THEN x.color ELSE before.color
                    /\ after.price_range = IF x.price_range # NoRange THEN x.price_range
                                           ELSE before.price_range
              /\ last'.searched =>
                    /\ given(IF given(x.category) THEN x.category ELSE before.category)
                    /\ \/ given(IF given(x.style) THEN x.style ELSE before.style)
                       \/ given(IF given(x.color) THEN x.color ELSE before.color)
              /\ \A v \in DOMAIN user_contexts :
                    (v # u \/ ~last'.searched) =>
                       /\ v \in DOMAIN user_contexts'
                       /\ given(user_contexts[v].slot_state.category)
                            => given(user_contexts'[v].slot_state.category)
                       /\ given(user_contexts[v].slot_state.style)
                            => given(user_contexts'[v].slot_state.style)
                       /\ given(user_contexts[v].slot_state.color)
                            => given(user_contexts'[v].slot_state.color)
                       /\ user_contexts[v].slot_state.price_range # NoRange
                            => user_contexts'[v].slot_state.price_range # NoRange
      ]_vars

\* a second search turn from which nothing is extracted for the category
\* and the price range, which keeps both and asks again
C20_CategoryKeptByLaterTurn ==
    /\ AskedToClarify
    /\ calls.chat = 2
    /\ ~Truthy(extract_product_attributes(last.message, client, last.env.ext).attrs.category)
    /\ SlotStateOf(user_contexts, last.user_id).category = "shirt"
    /\ SlotStateOf(user_contexts, last.user_id).price_range = <<1000, 3000>>

\* C21 (as stated): for an incomplete slot state the missing list is exactly
\* [category] when the category is missing, whatever style and color hold,
\* exactly [style, color] when the category is present and neither style nor
\* color is, and never empty.
C21_MissingCategoryIsSoleItem ==
    (probe.op = "get_missing_slots" /\ ~check_completeness(probe.slot_state)) =>
        /\ ~Truthy(probe.slot_state.category) => probe.out = <<"category">>
        /\ (/\ Truthy(probe.slot_state.category)
            /\ ~Truthy(probe.slot_state.style)
            /\ ~Truthy(probe.slot_state.color)) => probe.out = <<"style", "color">>
        /\ probe.out # <<>>

\* C21 (amended): for an incomplete slot state the missing list starts with
\* category when the category is missing and goes on with style and color
\* exactly when neither of the two is present, so it is [category, style,
\* color], [category] or [style, color] and never empty; the question asked
\* without the language model is the category question whenever the
\* category is missing.
C21_MissingSlotsListed ==
    (probe.op = "get_missing_slots" /\ ~check_completeness(probe.slot_state)) =>
        LET s == probe.slot_state
            neither == ~Truthy(s.style) /\ ~Truthy(s.color)
        IN  /\ (~Truthy(s.category) /\ neither)
                    => probe.out = <<"category", "style", "color">>
            /\ (~Truthy(s.category) /\ ~neither) => probe.out = <<"category">>
            /\ (Truthy(s.category) /\ neither) => probe.out = <<"style", "color">>
            /\ probe.out # <<>>
            /\ ~Truthy(s.category) =>
                    probe.question = fallback_slot_question(<<"category">>)

C21_NothingFilled ==
    /\ probe.op = "get_missing_slots"
    /\ probe.slot_state.category = None
    /\ probe.slot_state.style = ""
    /\ probe.slot_state.color = None
    /\ probe.out = <<"category", "style", "color">>

\* C22: a failure inside a handler is caught by the handler and answered
\* with an apology whose action descriptor tells it from a successful
\* action.  Stated for remove_from_cart with the store out of reach: the
\* handler does not raise and its actions_performed differ from those of a
\* removal that went through.
C22_HandlerFailureHasErrorFlag ==
    (/\ probe.op = "handle_remove_from_cart"
     /\ ProductIdsIn[probe.message] # <<>>
     /\ probe.env.store = "down") =>
        /\ ~probe.out.raised
        /\ probe.out.result.response
              = "Sorry, there was an error removing items. Please try again."
        /\ probe.out.result.actions_performed # <<ActionStr("remove_from_cart")>>

\* C23: last_products_shown is the list of the most recent executed search
\* or successful product_view.  Stated for product_view: when the handler
\* finds the product, the context it leaves holds exactly that product as
\* last_products_shown.
C23_ViewedProductBecomesLastShown ==
    (/\ probe.op = "handle_product_view"
     /\ FallbackIntent[probe.message].intent = "product_view"
     /\ probe.context.last_products_shown # <<>>
     /\ probe.out.result.products # <<>>) =>
        probe.out.context.last_products_shown = probe.out.result.products

\* the keys of intent_definitions
IntentLabels == {intent_definitions[i] : i \in 1..Len(intent_definitions)}

\* C24: after every chat call the current_intent of every session is absent
\* or one of the six intent labels, and after a turn that did not end in the
\* error result the caller's current_intent equals the intent of the
\* ChatResult, whatever label the classifier of the language model returned.
C24_CurrentIntentInClosedSet ==
    /\ \A u \in DOMAIN user_contexts :
          user_contexts[u].current_intent \in IntentLabels \cup {None}
    /\ (last.op = "chat" /\ ~last.raised) =>
          user_contexts[last.user_id].current_intent = last.result.intent

\* the value of a user's cart: price times quantity over the products up to n
RECURSIVE CartValue(_, _, _)
CartValue(store, user_id, n) ==
    IF n = 0 THEN 0
    ELSE (IF n \in ProductIDs
          THEN Products[n].Price * CartQuantity(store, user_id, n) ELSE 0)
            + CartValue(store, user_id, n - 1)

\* the rows of CartItems of a user's cart, in insertion order
OwnRows(store, user_id) ==
    SelectSeq(store.CartItems, LAMBDA row : row.CartID = CartOf(store, user_id))

\* view_cart changes nothing: store and context are left as they were
ViewCartFrame ==
    /\ ~probe.out.raised
    /\ probe.out.db = probe.store
    /\ probe.out.context = probe.context

\* the cart as view_cart reports it when it has read it
ViewCartExact ==
    LET user_id == probe.context.user_id
        rows == OwnRows(probe.store, user_id)
        products == probe.out.result.products
    IN  /\ CartSize(probe.store, user_id) = 0 <=>
              (probe.out.result.response = EmptyCartText /\ products = <<>>)
        /\ CartSize(probe.store, user_id) > 0 =>
              /\ Len(products) = Len(rows)
              /\ \A i \in 1..Len(rows) :
                    /\ products[i].ProductID = rows[i].ProductID
                    /\ products[i].Quantity = rows[i].Quantity
                    /\ products[i].Price = Products[rows[i].ProductID].Price
              /\ Contains(probe.out.result.response,
                          "Total: $" \o Money(CartValue(probe.store, user_id,
                                                        Max(ProductIDs))) \o "\n")

\* C25: view_cart changes no cart, line, product, slot state or
\* last_products_shown and creates no cart, whether or not the store can be
\* read; having read the store it answers with the empty-cart message and no
\* products exactly when the user has no cart or the cart has no line, and
\* otherwise products has one entry per cart line and the total reported is
\* the sum of price times quantity over the lines; when the store cannot be
\* read it apologises and returns no products.
C25_ViewCartReadOnlyAndExactWhenRead ==
    probe.op = "handle_view_cart" =>
        /\ ViewCartFrame
        /\ probe.env.store = "up" => ViewCartExact
        /\ probe.env.store # "up" =>
              /\ probe.out.result.response
                    = "Sorry, I couldn't retrieve your cart. Please try again."
              /\ probe.out.result.products = <<>>

C25_TwoLinesOneTwice ==
    /\ probe.op = "handle_view_cart"
    /\ probe.env.store = "up"
    /\ Len(probe.store.Cart) = 2
    /\ Len(probe.out.result.products) = 2
    /\ probe.out.result.products[2].Quantity = 2
    /\ CartValue(probe.store, 1, Max(ProductIDs))
          = Products[6].Price + 2 * Products[1].Price

\* the matches of \\b(\\d+)\\b in a message: the stretches <<i, j>> of digits
\* with no word character next to them on either side
StandaloneTokens(message) ==
    { t \in (1..Len(message)) \X (1..Len(message)) :
        /\ t[1] <= t[2]
        /\ \A k \in t[1]..t[2] : IsDigit(Char(message, k))
        /\ t[1] = 1 \/ ~IsWordChar(Char(message, t[1] - 1))
        /\ t[2] = Len(message) \/ ~IsWordChar(Char(message, t[2] + 1)) }

\* the values in 1..9999 of a set of stretches, in order of appearance
RECURSIVE TokenValues(_, _)
TokenValues(message, T) ==
    IF T = {} THEN <<>>
    ELSE LET t == CHOOSE t \in T : \A u \in T : t[1] <= u[1]
             value == ToInt(SubSeq(message, t[1], t[2]))
         IN  (IF value \in 1..9999 THEN <<value>> ELSE <<>>)
                \o TokenValues(message, T \ {t})

\* C26: the ids add_to_cart acts on are the standalone numeric tokens of the
\* message with value in 1..9999, in order of appearance; the reference
\* resolver is consulted only when there is no such token and
\* last_products_shown is non-empty; when neither gives an id the cart is
\* left as it was and the reply asks the user to specify the product.
C26_AddToCartIdSelection ==
    probe.op = "handle_add_to_cart" =>
        LET tokens == TokenValues(probe.message, StandaloneTokens(probe.message))
            shown == probe.context.last_products_shown
            reference == IF tokens = <<>> /\ shown # <<>>
                         THEN ResolvedReference[<<probe.message, shown>>] ELSE 0
            ids == IF tokens # <<>> THEN tokens
                   ELSE IF reference # 0 THEN <<reference>> ELSE <<>>
            acted == add_products_to_cart(ids, probe.context.user_id, probe.store,
                                          probe.env.store = "up")
        IN  /\ ProductIdsIn[probe.message] = tokens
            /\ ids # <<>> =>
                  /\ probe.out.db = acted.db
                  /\ probe.out.result.response = acted.response
            /\ ids = <<>> =>
                  /\ probe.out.db = probe.store
                  /\ probe.out.result.response
                        = "I'm not sure which product you want to add. Could you specify the product ID or describe it?"

\* an id in the message wins over a product shown that the message describes
C26_TokenBeforeReference ==
    /\ probe.op = "handle_add_to_cart"
    /\ probe.message = "black shirt 200"
    /\ probe.env.store = "up"
    /\ probe.context.last_products_shown # <<>>
    /\ ResolvedReference[<<probe.message, probe.context.last_products_shown>>] # 0
    /\ probe.out.result.response
          = "Could not add products to cart. They may be out of stock."

\* C27: between chat calls the slot state of every stored session is
\* incomplete: a slot state that a search_products turn completes is used by
\* the search of that turn and cleared before the turn returns.
C27_StoredSlotStateIncomplete ==
    \A u \in DOMAIN user_contexts : ~check_completeness(user_contexts[u].slot_state)

\* a second turn names the color that the category of the first turn lacked,
\* and the search is run
C27_CompletedBySecondTurn ==
    /\ last.op = "chat"
    /\ calls.chat = 2
    /\ last.message = "black"
    /\ last.searched
    /\ last.result.products # <<>>
    /\ SlotStateOf(user_contexts, last.user_id) = SlotFillingState

CartCount(store, user_id) ==
    Cardinality({c \in 1..Len(store.Cart) : store.Cart[c] = user_id})

\* the lines for a product over all carts of a user
LinesAnyCart(store, user_id, product_id) ==
    Cardinality({i \in 1..Len(store.CartItems) :
                   /\ store.CartItems[i].ProductID = product_id
                   /\ store.CartItems[i].CartID \in 1..Len(store.Cart)
                   /\ store.Cart[store.CartItems[i].CartID] = user_id})

\* the turns that have added the product
SuccessfulAdds == Cardinality({r \in 1..MaxAdds : probe.req[r].added})

WithoutStoreIds(result) ==
    [result EXCEPT
        !.conversation_id = 0,
        !.products = [i \in DOMAIN @ |->
                         IF "CartItemID" \in DOMAIN @[i]
                         THEN [@[i] EXCEPT !.CartItemID = 0] ELSE @[i]]]

\* what a user has in a run: the session context, the conversation rows and
\* per product the quantity and the lines of the cart
Holdings(contexts, store, user_id) ==
    [context |-> IF user_id \in DOMAIN contexts THEN <<contexts[user_id]>> ELSE <<>>,
     rows |-> RowsOf(store, user_id),
     has_cart |-> CartOf(store, user_id) # 0,
     cart |-> [p \in ProductIDs |->
                 <<CartQuantity(store, user_id, p), CartLineCount(store, user_id, p)>>]]

\* C30 (as stated): a call of chat or reset_conversation for user u returns
\* the same ChatResult and leaves the same session context for u in two
\* runs that differ only in what the other users have (contexts,
\* conversation rows, carts).
C30_SameResultAmongOthers ==
    last.op \in {"own_chat", "own_reset"} =>
        /\ last.result = last.twin
        /\ Holdings(user_contexts, db, PairUser).context
              = Holdings(probe.user_contexts, probe.db, PairUser).context

\* C30 (amended): in the two runs every call for u returns the same
\* ChatResult up to the numbers the store hands out (conversation_id, the
\* CartItemID of the cart lines shown) and leaves u the same session
\* context, conversation rows and cart contents; a call for u leaves the
\* context, the conversation rows and the cart of the other user as they
\* were, and a call of the other user leaves those of u as they were.
C30_SameResultUpToStoreIds ==
    [][ /\ last'.op \in {"own_chat", "own_reset"} =>
              /\ WithoutStoreIds(last'.result) = WithoutStoreIds(last'.twin)
              /\ Holdings(probe'.user_contexts, probe'.db, PairOther)
                    = Holdings(probe.user_contexts, probe.db, PairOther)
              /\ PairOther \notin DOMAIN user_contexts'
              /\ Holdings(user_contexts', db', PairOther)
                    = Holdings(<<>>, EmptyStore, PairOther)
        /\ last'.op = "other_chat" =>
              Holdings(probe'.user_contexts, probe'.db, PairUser)
                = Holdings(probe.user_contexts, probe.db, PairUser)
        /\ Holdings(user_contexts', db', PairUser)
              = Holdings(probe'.user_contexts, probe'.db, PairUser)
      ]_vars

\* the other user has a cart with a line, and u is shown the own cart: the
\* same line in both runs, under another CartItemID
C30_OwnCartBesideAnothers ==
    /\ last.op = "own_chat"
    /\ last.message = "show my cart"
    /\ CartQuantity(probe.db, PairOther, 1) = 1
    /\ Len(last.result.products) = 1
    /\ Len(last.twin.products) = 1
    /\ last.result.products[1].CartItemID # last.twin.products[1].CartItemID
    /\ last.result.conversation_id # last.twin.conversation_id
    /\ last.result.response = last.twin.response
====
